---- MODULE Spec2Model ----
(***************************************************************************)
(* chat-memory: token estimation, budget-aware history splitting and the   *)
(* three-tier memory orchestration.                                        *)
(*                                                                         *)
(* A JavaScript string is modelled as a sequence of integers (one per      *)
(* character), so that text.length is Len.  An optional value              *)
(* (T | undefined, T | null) is a sequence of length at most one:          *)
(* <<>> is the absent value and <<v>> carries v.                           *)
(***************************************************************************)
EXTENDS Integers, Sequences, FiniteSets, TLC

VARIABLES
    util,      \* a direct call of a MemorySplitUtil function: input and result
    mgr,       \* the ThreeTierMemoryManager's fields, fixed by its constructor
    history,   \* the conversation: chronological, append-only
    store,     \* the storage backend: Memory Context key -> record, if any
    writes,    \* upsertSummary calls issued and not yet settled
    calls,     \* per caller: the buildHistory call in flight, or idle
    ncalls,    \* buildHistory calls started so far
    last,      \* the previous buildHistory call as it returned, where noted
    purge      \* the latest deleteSummaries call and what it asked of the storage

vars == <<util, mgr, history, store, writes, calls, ncalls, last, purge>>

(* ----------------------------- bounds --------------------------------- *)

\* longest message list handed to the pure split functions
MaxMsgs == 4

\* longest conversation the manager is called with
MaxHistory == 4

\* buildHistory calls in one run
MaxCalls == 2

(* ------------------------- optional values ---------------------------- *)

Undefined == <<>>

Some(v) == <<v>>

IsDefined(o) == o /= <<>>

\* a string of n characters, every character being c
Chars(n, c) == [k \in 1..n |-> c]

RECURSIVE SumSeq(_)
SumSeq(s) == IF s = <<>> THEN 0 ELSE Head(s) + SumSeq(Tail(s))

\* faulty variant: the kept messages stay in push order (newest first)
Reverse_Omitted(s) == s

\* Array.prototype.reverse
Reverse(s) == [k \in 1..Len(s) |-> s[Len(s) + 1 - k]]

\* a relative index of Array.prototype.slice: negative counts from the end
SliceIndex(s, i) ==
    IF i < 0
    THEN (IF Len(s) + i < 0 THEN 0 ELSE Len(s) + i)
    ELSE (IF i > Len(s) THEN Len(s) ELSE i)

\* Array.prototype.slice(from, to) on 0-based indices
Slice(s, from, to) == SubSeq(s, SliceIndex(s, from) + 1, SliceIndex(s, to))

(* --------------------------- message types ---------------------------- *)

MessageRole == {"system", "user", "assistant", "tool"}

\* ContentPart: text and image_url are optional
TextPart(t) == [type |-> "text", text |-> Some(t), image_url |-> Undefined]

BareTextPart == [type |-> "text", text |-> Undefined, image_url |-> Undefined]

ImagePart(url) == [type |-> "image_url", text |-> Undefined, image_url |-> Some(url)]

\* Message.content: string | ContentPart[]
StringContent(t) == [kind |-> "string", text |-> t, parts |-> <<>>]

PartsContent(ps) == [kind |-> "parts", text |-> <<>>, parts |-> ps]

Message(r, c) == [role |-> r, content |-> c]

(* -------------------------- token estimation -------------------------- *)

DEFAULT_CHARS_PER_TOKEN_ESTIMATE == 4

\* a default parameter value applies when the argument is undefined
CharsPerTokenOrDefault(charsPerToken) ==
    IF IsDefined(charsPerToken) THEN charsPerToken[1] ELSE DEFAULT_CHARS_PER_TOKEN_ESTIMATE

\* faulty variant: the quotient is rounded down
CeilDiv_Floor(n, d) == n \div d

\* Math.ceil(n / d) for n >= 0 and d > 0
CeilDiv(n, d) == (n + d - 1) \div d

estimateStringTokens(text, charsPerToken) ==
    LET cpt == CharsPerTokenOrDefault(charsPerToken)
    IN  IF Len(text) = 0 \/ cpt <= 0 THEN 0 ELSE CeilDiv(Len(text), cpt)

\* characters a part adds to totalChars
PartChars(part) ==
    IF part.type = "text" /\ IsDefined(part.text) /\ Len(part.text[1]) > 0
    THEN Len(part.text[1])
    ELSE 0

estimateContentTokens(content, charsPerToken) ==
    LET cpt == CharsPerTokenOrDefault(charsPerToken)
    IN  IF content.kind = "string"
        THEN estimateStringTokens(content.text, charsPerToken)
        ELSE IF cpt <= 0
             THEN 0
             ELSE CeilDiv(SumSeq([k \in 1..Len(content.parts) |-> PartChars(content.parts[k])]), cpt)

\* sum of the content estimates of a message list
MessagesTokens(messages, charsPerToken) ==
    SumSeq([k \in 1..Len(messages) |-> estimateContentTokens(messages[k].content, charsPerToken)])

(* --------------------------- budget splitter -------------------------- *)

MIN_MESSAGES_FOR_FIRST_PAIR == 2

DEFAULT_SAFETY_MARGIN == 200

\* faulty variant: the two messages are estimated with the default ratio
calculateHistoryBudget_DefaultRatio(config) ==
    LET safetyMargin == IF IsDefined(config.safetyMargin)
                        THEN config.safetyMargin[1]
                        ELSE DEFAULT_SAFETY_MARGIN
        sys == IF IsDefined(config.systemMessage) /\ Len(config.systemMessage[1]) > 0
               THEN estimateStringTokens(config.systemMessage[1], Undefined)
               ELSE 0
        usr == IF IsDefined(config.newUserMessage) /\ Len(config.newUserMessage[1]) > 0
               THEN estimateStringTokens(config.newUserMessage[1], Undefined)
               ELSE 0
    IN  config.contextWindow - config.maxOutputTokens - safetyMargin - sys - usr

calculateHistoryBudget(config) ==
    LET safetyMargin == IF IsDefined(config.safetyMargin)
                        THEN config.safetyMargin[1]
                        ELSE DEFAULT_SAFETY_MARGIN
        sys == IF IsDefined(config.systemMessage) /\ Len(config.systemMessage[1]) > 0
               THEN estimateStringTokens(config.systemMessage[1], config.charsPerToken)
               ELSE 0
        usr == IF IsDefined(config.newUserMessage) /\ Len(config.newUserMessage[1]) > 0
               THEN estimateStringTokens(config.newUserMessage[1], config.charsPerToken)
               ELSE 0
    IN  config.contextWindow - config.maxOutputTokens - safetyMargin - sys - usr

\* faulty variant: a budget of exactly 0 is still walked
BudgetExhausted_NegativeOnly(budget) == budget < 0

\* budget <= 0: nothing fits
BudgetExhausted(budget) == budget <= 0

\* faulty variant: a message that fills the budget exactly is refused
Overflows_AtBudget(usedTokens, msgTokens, budget) == usedTokens + msgTokens >= budget

\* the message at hand would make the accumulated estimate exceed the budget
Overflows(usedTokens, msgTokens, budget) == usedTokens + msgTokens > budget

\* The backward walk shared by both split functions: from 0-based index i
\* down to index low, pushing messages until the first one that overflows.
\* The result is in push order (newest first).
RECURSIVE WalkBackward(_, _, _, _, _, _)
WalkBackward(messages, i, low, usedTokens, budget, charsPerToken) ==
    IF i < low
    THEN <<>>
    ELSE LET msgTokens == estimateContentTokens(messages[i + 1].content, charsPerToken)
         IN  IF Overflows(usedTokens, msgTokens, budget)
             THEN <<>>
             ELSE <<messages[i + 1]>>
                  \o WalkBackward(messages, i - 1, low, usedTokens + msgTokens, budget, charsPerToken)

truncateToTokenBudget(messages, config) ==
    IF Len(messages) = 0
    THEN <<>>
    ELSE LET budget == calculateHistoryBudget(config)
         IN  IF BudgetExhausted(budget)
             THEN <<>>
             ELSE Reverse(WalkBackward(messages, Len(messages) - 1, 0, 0, budget, config.charsPerToken))

SplitResult(firstPair, droppedMessages, recentMessages, processedThroughIndex, wasTruncated) ==
    [firstPair |-> firstPair,
     droppedMessages |-> droppedMessages,
     recentMessages |-> recentMessages,
     processedThroughIndex |-> processedThroughIndex,
     wasTruncated |-> wasTruncated]

\* faulty variant: the result for a short or fitting input is flagged truncated
NoTruncation_Flagged(messages) ==
    SplitResult(<<>>, <<>>, messages,
                IF Len(messages) - 1 > 0 THEN Len(messages) - 1 ELSE 0, TRUE)

\* the noTruncation result built by splitForThreeTierMemory and splitMessages
NoTruncation(messages) ==
    SplitResult(<<>>, <<>>, messages,
                IF Len(messages) - 1 > 0 THEN Len(messages) - 1 ELSE 0, FALSE)

\* faulty variant: the fallback result carries the message count as the index
SplitNotApplicable_CountAsIndex(messages) ==
    SplitResult(<<>>, messages, <<>>, Len(messages), TRUE)

\* the result returned for an exhausted budget and for an oversized first pair
SplitNotApplicable(messages) ==
    SplitResult(<<>>, messages, <<>>, Len(messages) - 1, TRUE)

\* faulty variant: the dropped tier ends one message early
RecentStartIndex_OffByOne(messages, recentMessages) ==
    Len(messages) - Len(recentMessages) - 1

\* recentStartIndex of the three-tier split, from the length of the recent tier
RecentStartIndex(messages, recentMessages) == Len(messages) - Len(recentMessages)

\* faulty variant: a first pair that costs the budget exactly is honoured
FirstPairExceedsBudget_Strict(firstPairTokens, totalBudget) == firstPairTokens > totalBudget

\* the first pair alone uses up the budget
FirstPairExceedsBudget(firstPairTokens, totalBudget) == firstPairTokens >= totalBudget

\* faulty variant: a history that uses the budget exactly no longer fits
AllMessagesFit_Strict(allMessagesTokens, totalBudget) == allMessagesTokens < totalBudget

\* faulty variant: a history one token over the budget still counts as fitting
AllMessagesFit_OneOver(allMessagesTokens, totalBudget) == allMessagesTokens <= totalBudget + 1

\* all messages fit without truncation
AllMessagesFit(allMessagesTokens, totalBudget) == allMessagesTokens <= totalBudget

\* faulty variant: no tokens are set aside for the summary message
RecentBudget_NoSummarySlot(totalBudget, firstPairTokens, maxSummaryBudgetTokens) ==
    totalBudget - firstPairTokens

\* faulty variant: the summary reservation is added instead of subtracted
RecentBudget_SlotAdded(totalBudget, firstPairTokens, maxSummaryBudgetTokens) ==
    totalBudget - firstPairTokens + maxSummaryBudgetTokens

\* budget remaining after first pair and summary reservation
RecentBudget(totalBudget, firstPairTokens, maxSummaryBudgetTokens) ==
    totalBudget - firstPairTokens - maxSummaryBudgetTokens

\* faulty variant: the anchor is costed from the two newest messages
FirstPairTokens_NewestPair(messages, charsPerToken) ==
    estimateContentTokens(messages[Len(messages) - 1].content, charsPerToken)
    + estimateContentTokens(messages[Len(messages)].content, charsPerToken)

\* estimated tokens of messages[0] and messages[1]
FirstPairTokens(messages, charsPerToken) ==
    estimateContentTokens(messages[1].content, charsPerToken)
    + estimateContentTokens(messages[2].content, charsPerToken)

splitForThreeTierMemory(messages, config) ==
    IF Len(messages) < MIN_MESSAGES_FOR_FIRST_PAIR
    THEN NoTruncation(messages)
    ELSE
    LET charsPerToken == config.charsPerToken
        totalBudget == calculateHistoryBudget(config)
        firstPairTokens == FirstPairTokens(messages, charsPerToken)
        allMessagesTokens == MessagesTokens(messages, charsPerToken)
        firstPair == Slice(messages, 0, MIN_MESSAGES_FOR_FIRST_PAIR)
        recentBudget == RecentBudget(totalBudget, firstPairTokens, config.maxSummaryBudgetTokens)
        recentMessages ==
            IF recentBudget > 0
            THEN Reverse(WalkBackward(messages, Len(messages) - 1, MIN_MESSAGES_FOR_FIRST_PAIR,
                                      0, recentBudget, charsPerToken))
            ELSE <<>>
        recentStartIndex == RecentStartIndex(messages, recentMessages)
        droppedMessages == Slice(messages, MIN_MESSAGES_FOR_FIRST_PAIR, recentStartIndex)
    IN  IF BudgetExhausted(totalBudget)
        THEN SplitNotApplicable(messages)
        ELSE IF FirstPairExceedsBudget(firstPairTokens, totalBudget)
        THEN SplitNotApplicable(messages)
        ELSE IF AllMessagesFit(allMessagesTokens, totalBudget)
        THEN NoTruncation(messages)
        ELSE SplitResult(firstPair, droppedMessages, recentMessages, Len(messages) - 1, TRUE)

(* -------------------------- memory orchestrator ----------------------- *)

DEFAULT_MAX_SUMMARY_BUDGET_TOKENS == 500

\* the constructor: options?.storage, options?.summarizer and options?.config,
\* hasStorage / hasSummarizer telling whether the adapter was supplied
Constructor(hasStorage, hasSummarizer, config) ==
    [storage |-> hasStorage,
     summarizer |-> hasSummarizer,
     summarizationEnabled |-> IF IsDefined(config.summarizationEnabled)
                              THEN config.summarizationEnabled[1]
                              ELSE TRUE,
     maxSummaryBudgetTokens |-> IF IsDefined(config.defaultMaxSummaryBudgetTokens)
                                THEN config.defaultMaxSummaryBudgetTokens[1]
                                ELSE DEFAULT_MAX_SUMMARY_BUDGET_TOKENS,
     charsPerToken |-> config.defaultCharsPerToken]

splitMessages(m, messages, contextWindow, maxOutputTokens, systemMessage, newUserMessage) ==
    IF Len(messages) < MIN_MESSAGES_FOR_FIRST_PAIR
    THEN NoTruncation(messages)
    ELSE splitForThreeTierMemory(messages,
            [contextWindow |-> contextWindow,
             maxOutputTokens |-> maxOutputTokens,
             maxSummaryBudgetTokens |-> m.maxSummaryBudgetTokens,
             charsPerToken |-> m.charsPerToken,
             systemMessage |-> systemMessage,
             newUserMessage |-> newUserMessage,
             safetyMargin |-> Undefined])

\* faulty variant: the fallback forgets to deduct the system message
truncateMessages_NoSystemMessage(m, messages, contextWindow, maxOutputTokens, systemMessage, newUserMessage) ==
    IF Len(messages) = 0
    THEN messages
    ELSE truncateToTokenBudget(messages,
            [contextWindow |-> contextWindow,
             maxOutputTokens |-> maxOutputTokens,
             charsPerToken |-> m.charsPerToken,
             systemMessage |-> Undefined,
             newUserMessage |-> newUserMessage,
             safetyMargin |-> Undefined])

truncateMessages(m, messages, contextWindow, maxOutputTokens, systemMessage, newUserMessage) ==
    IF Len(messages) = 0
    THEN messages
    ELSE truncateToTokenBudget(messages,
            [contextWindow |-> contextWindow,
             maxOutputTokens |-> maxOutputTokens,
             charsPerToken |-> m.charsPerToken,
             systemMessage |-> systemMessage,
             newUserMessage |-> newUserMessage,
             safetyMargin |-> Undefined])

\* if (newUserMessage) messages.push({ role: 'user', content: newUserMessage })
\* faulty variant: an empty pending text is appended as well
PushNewUserMessage_EmptyToo(messages, newUserMessage) ==
    IF IsDefined(newUserMessage)
    THEN Append(messages, Message("user", StringContent(newUserMessage[1])))
    ELSE messages

\* if (newUserMessage) messages.push({ role: 'user', content: newUserMessage })
PushNewUserMessage(messages, newUserMessage) ==
    IF IsDefined(newUserMessage) /\ Len(newUserMessage[1]) > 0
    THEN Append(messages, Message("user", StringContent(newUserMessage[1])))
    ELSE messages

\* the characters of "[Conversation Summary]\n"
SUMMARY_PREFIX ==
    <<91, 67, 111, 110, 118, 101, 114, 115, 97, 116, 105, 111, 110, 32,
      83, 117, 109, 109, 97, 114, 121, 93, 10>>

\* { role: 'user', content: `[Conversation Summary]\n${text}` }
SummaryMessage(text) == Message("user", StringContent(SUMMARY_PREFIX \o text))

\* faulty variant: the summary is placed after the recent tier
Assemble_SummaryAfterRecent(splitResult, summaryMessage, newUserMessage) ==
    PushNewUserMessage(splitResult.firstPair \o splitResult.recentMessages \o summaryMessage,
                       newUserMessage)

\* firstPair + summary? + recentMessages + newUserMessage
Assemble(splitResult, summaryMessage, newUserMessage) ==
    PushNewUserMessage(splitResult.firstPair \o summaryMessage \o splitResult.recentMessages,
                       newUserMessage)

\* the first character of a role name stands for the name
RoleText(role) ==
    CASE role = "user" -> <<117>>
      [] role = "assistant" -> <<97>>
      [] role = "system" -> <<115>>
      [] OTHER -> <<116>>

\* JSON.stringify(part): braces around the type's first character and the
\* text and url, if any (key names and quotes are left out)
StringifyPart(part) ==
    <<123>> \o (IF part.type = "text" THEN <<116>> ELSE <<105>>)
            \o (IF IsDefined(part.text) THEN <<58>> \o part.text[1] ELSE <<>>)
            \o (IF IsDefined(part.image_url) THEN <<58>> \o part.image_url[1] ELSE <<>>)
            \o <<125>>

RECURSIVE JoinWith(_, _)
JoinWith(strings, sep) ==
    IF strings = <<>> THEN <<>>
    ELSE IF Len(strings) = 1 THEN strings[1]
    ELSE strings[1] \o sep \o JoinWith(Tail(strings), sep)

\* JSON.stringify(content) of a ContentPart[]
StringifyParts(parts) ==
    <<91>> \o JoinWith([k \in 1..Len(parts) |-> StringifyPart(parts[k])], <<44>>) \o <<93>>

\* `${m.role}: ${content}` joined by '\n\n'
MessagesText(messages) ==
    JoinWith([k \in 1..Len(messages) |->
                RoleText(messages[k].role) \o <<58, 32>>
                \o (IF messages[k].content.kind = "string"
                    THEN messages[k].content.text
                    ELSE StringifyParts(messages[k].content.parts))],
             <<10, 10>>)

\* faulty variant: the marker is taken for the count itself
AlreadySummarizedInDropped_NoOffset(record) == record.summarizedThroughIndex

\* count of dropped messages a record's marker already covers
AlreadySummarizedInDropped(record) == record.summarizedThroughIndex - 1

\* faulty variant: the whole dropped tier is summarized again
NewlyDroppedMessages_Whole(droppedMessages, existingSummary) == droppedMessages

\* the dropped messages not yet summarized, given the loaded record (if any)
NewlyDroppedMessages(droppedMessages, existingSummary) ==
    IF IsDefined(existingSummary) /\ existingSummary[1].summarizedThroughIndex > 1
    THEN IF AlreadySummarizedInDropped(existingSummary[1]) < Len(droppedMessages)
         THEN Slice(droppedMessages, AlreadySummarizedInDropped(existingSummary[1]),
                    Len(droppedMessages))
         ELSE <<>>
    ELSE droppedMessages

\* faulty variant: the marker is the count of dropped messages itself
NewSummarizedThroughIndex_NoOffset(droppedMessages) == Len(droppedMessages)

\* the marker persisted with a new summary
NewSummarizedThroughIndex(droppedMessages) == Len(droppedMessages) + 1

\* faulty variant: the record is written under the first entity, whatever
\* the Memory Context
UpsertSummaryData_OtherEntity(context, summaryText, droppedMessages) ==
    [entityType |-> context.entityType,
     entityId |-> "e1",
     modelKey |-> context.modelKey,
     summary |-> summaryText,
     summarizedThroughIndex |-> NewSummarizedThroughIndex(droppedMessages)]

UpsertSummaryData(context, summaryText, droppedMessages) ==
    [entityType |-> context.entityType,
     entityId |-> context.entityId,
     modelKey |-> context.modelKey,
     summary |-> summaryText,
     summarizedThroughIndex |-> NewSummarizedThroughIndex(droppedMessages)]

\* the key a record is stored under
KeyOf(data) ==
    [entityType |-> data.entityType, entityId |-> data.entityId, modelKey |-> data.modelKey]

(* ------------------------ storage and call state ---------------------- *)

MemoryContext(entityType, entityId, modelKey) ==
    [entityType |-> entityType, entityId |-> entityId, modelKey |-> modelKey]

\* the keys of the storage backend: two model keys of one entity, and another entity
StoreKeys ==
    { MemoryContext("conversation", "e1", Undefined),
      MemoryContext("conversation", "e1", Some("m1")),
      MemoryContext("conversation", "e2", Undefined) }

\* the callers that may have a buildHistory call in flight
Procs == {"c1", "c2"}

EmptySplit == SplitResult(<<>>, <<>>, <<>>, 0, FALSE)

IdleCall ==
    [pc |-> "idle", input |-> Undefined, context |-> Undefined, split |-> EmptySplit,
     existing |-> Undefined, newly |-> <<>>, result |-> <<>>, path |-> "",
     getSummaryCalls |-> <<>>, summarizeCalls |-> <<>>, upsertCalls |-> <<>>]

\* no deleteSummaries call so far
NoPurge ==
    [entityType |-> "", entityId |-> "", deleteCalls |-> <<>>, outcome |-> "none"]

BuildHistoryInput(allHistory, contextWindow, maxOutputTokens, systemMessage, newUserMessage, summarizationContext) ==
    [allHistory |-> allHistory,
     contextWindow |-> contextWindow,
     maxOutputTokens |-> maxOutputTokens,
     systemMessage |-> systemMessage,
     newUserMessage |-> newUserMessage,
     summarizationContext |-> summarizationContext]

\* faulty variant: summary resolution is attempted without a Memory Context
HasContext_Ignored(context) == TRUE

\* context ? ... : null
HasContext(context) == IsDefined(context)

\* droppedMessages.length === 0 || !this.summarizationEnabled
SummarizationOff(m, droppedMessages) == Len(droppedMessages) = 0 \/ ~m.summarizationEnabled

\* faulty variant: summarization is skipped only when both adapters are missing
AdapterMissing_Both(m) == ~m.storage /\ ~m.summarizer

\* !this.storage || !this.summarizer
AdapterMissing(m) == ~m.storage \/ ~m.summarizer

\* the call returns `result`, having taken `path`
Returned(call, path, result) ==
    [call EXCEPT !.pc = "done", !.path = path, !.result = result]

\* buildHistory(input, context) up to its return or its first pending await
BuildHistoryCall(m, input, context) ==
    LET splitResult == splitMessages(m, input.allHistory, input.contextWindow,
                                     input.maxOutputTokens, input.systemMessage,
                                     input.newUserMessage)
        started == [IdleCall EXCEPT !.input = Some(input), !.context = context,
                                    !.split = splitResult]
    IN  IF ~splitResult.wasTruncated
        THEN Returned(started, "NO_TRUNCATION_NEEDED",
                      PushNewUserMessage(input.allHistory, input.newUserMessage))
        ELSE IF Len(splitResult.firstPair) = 0
        THEN Returned(started, "SLIDING_WINDOW_FALLBACK",
                      PushNewUserMessage(
                          truncateMessages(m, input.allHistory, input.contextWindow,
                                           input.maxOutputTokens, input.systemMessage,
                                           input.newUserMessage),
                          input.newUserMessage))
        ELSE IF ~HasContext(context)
        THEN Returned(started, "NO_CONTEXT",
                      Assemble(splitResult, <<>>, input.newUserMessage))
        ELSE IF SummarizationOff(m, splitResult.droppedMessages)
        THEN Returned(started, "SUMMARY_SKIPPED",
                      Assemble(splitResult, <<>>, input.newUserMessage))
        ELSE IF AdapterMissing(m)
        THEN Returned(started, "SUMMARY_SKIPPED",
                      Assemble(splitResult, <<>>, input.newUserMessage))
        ELSE [started EXCEPT !.pc = "getSummary",
                             !.getSummaryCalls = <<context>>]

\* buildSummaryMessage after storage.getSummary resolved with existingSummary
AfterGetSummary(call, existingSummary) ==
    LET droppedMessages == call.split.droppedMessages
        newlyDroppedMessages == NewlyDroppedMessages(droppedMessages, existingSummary)
        loaded == [call EXCEPT !.existing = existingSummary, !.newly = newlyDroppedMessages]
        input == call.input[1]
    IN  IF Len(newlyDroppedMessages) = 0 /\ IsDefined(existingSummary)
        THEN Returned(loaded, "SUMMARY_CACHED_HIT",
                      Assemble(call.split, <<SummaryMessage(existingSummary[1].summary)>>,
                               input.newUserMessage))
        ELSE IF Len(newlyDroppedMessages) > 0
        THEN [loaded EXCEPT !.pc = "summarize",
                            !.summarizeCalls =
                                <<[messagesText |-> MessagesText(newlyDroppedMessages),
                                   existingSummary |-> IF IsDefined(existingSummary)
                                                       THEN Some(existingSummary[1].summary)
                                                       ELSE Undefined,
                                   context |-> input.summarizationContext]>>]
        ELSE Returned(loaded, "SUMMARY_NONE", Assemble(call.split, <<>>, input.newUserMessage))

\* faulty variant: a failed summarization forgets the loaded summary
AfterSummarize_NoFallback(call, summaryText) ==
    LET input == call.input[1]
    IN  IF IsDefined(summaryText) /\ Len(summaryText[1]) > 0
        THEN [Returned(call, "SUMMARY_SUCCESS",
                       Assemble(call.split, <<SummaryMessage(summaryText[1])>>,
                                input.newUserMessage))
                EXCEPT !.upsertCalls =
                    <<UpsertSummaryData(call.context[1], summaryText[1],
                                        call.split.droppedMessages)>>]
        ELSE IF IsDefined(call.existing)
        THEN Returned(call, "SUMMARY_STALE_FALLBACK",
                      Assemble(call.split, <<>>, input.newUserMessage))
        ELSE Returned(call, "SUMMARY_NONE", Assemble(call.split, <<>>, input.newUserMessage))

\* faulty variant: an empty text from the engine is persisted like any other
AfterSummarize_PersistsEmpty(call, summaryText) ==
    LET input == call.input[1]
    IN  IF IsDefined(summaryText)
        THEN [Returned(call, "SUMMARY_SUCCESS",
                       Assemble(call.split, <<SummaryMessage(summaryText[1])>>,
                                input.newUserMessage))
                EXCEPT !.upsertCalls =
                    <<UpsertSummaryData(call.context[1], summaryText[1],
                                        call.split.droppedMessages)>>]
        ELSE IF IsDefined(call.existing)
        THEN Returned(call, "SUMMARY_STALE_FALLBACK",
                      Assemble(call.split, <<SummaryMessage(call.existing[1].summary)>>,
                               input.newUserMessage))
        ELSE Returned(call, "SUMMARY_NONE", Assemble(call.split, <<>>, input.newUserMessage))

\* buildSummaryMessage after summarizer.summarize resolved with summaryText
\* (null is Undefined)
AfterSummarize(call, summaryText) ==
    LET input == call.input[1]
    IN  IF IsDefined(summaryText) /\ Len(summaryText[1]) > 0
        THEN [Returned(call, "SUMMARY_SUCCESS",
                       Assemble(call.split, <<SummaryMessage(summaryText[1])>>,
                                input.newUserMessage))
                EXCEPT !.upsertCalls =
                    <<UpsertSummaryData(call.context[1], summaryText[1],
                                        call.split.droppedMessages)>>]
        ELSE IF IsDefined(call.existing)
        THEN Returned(call, "SUMMARY_STALE_FALLBACK",
                      Assemble(call.split, <<SummaryMessage(call.existing[1].summary)>>,
                               input.newUserMessage))
        ELSE Returned(call, "SUMMARY_NONE", Assemble(call.split, <<>>, input.newUserMessage))

\* faulty variant: the error is rethrown, so that buildHistory rejects
AfterThrow_Rethrown(call) == [call EXCEPT !.pc = "rejected", !.path = "REJECTED"]

\* faulty variant: after a failure the summary is loaded again
AfterThrow_Retried(call) == [call EXCEPT !.pc = "getSummary", !.summarizeCalls = <<>>]

\* the catch block of buildSummaryMessage: log and return null
AfterThrow(call) ==
    Returned(call, "SUMMARY_ERROR", Assemble(call.split, <<>>, call.input[1].newUserMessage))

\* summarizer.summarize resolved with a text and storage.upsertSummary threw
\* before returning its promise: the throw lands in the catch block
AfterUpsertThrows(call, summaryText) ==
    AfterThrow([call EXCEPT !.upsertCalls =
                    <<UpsertSummaryData(call.context[1], summaryText,
                                        call.split.droppedMessages)>>])

(* ------------------------------ inputs -------------------------------- *)

RoleAt(k) == IF k % 2 = 1 THEN "user" ELSE "assistant"

\* contents of the conversation's k-th message: a text of two tokens, or an
\* image alone (no tokens); c marks the message's characters
HistoryContents(c) ==
    { StringContent(Chars(5, c)),
      PartsContent(<<ImagePart(Chars(1, c))>>) }

ManagerConfig(summarizationEnabled, defaultMaxSummaryBudgetTokens) ==
    [summarizationEnabled |-> summarizationEnabled,
     defaultMaxSummaryBudgetTokens |-> defaultMaxSummaryBudgetTokens,
     defaultCharsPerToken |-> Undefined]

\* both adapters and summarization enabled, the summary slot being the default
\* 500 tokens, 0 or -1; and, with a slot of 0, every way of lacking an adapter
\* or having summarization disabled
FullManager(slot) == Constructor(TRUE, TRUE, ManagerConfig(Undefined, slot))

Managers ==
    { FullManager(slot) : slot \in {Undefined, Some(0), Some(-1)} }
    \cup
    { Constructor(hasStorage, hasSummarizer, ManagerConfig(enabled, Some(0))) :
        hasStorage \in BOOLEAN, hasSummarizer \in BOOLEAN, enabled \in {Undefined, Some(FALSE)} }

\* a record's stored fields
Record(summary, summarizedThroughIndex) ==
    [summary |-> summary, summarizedThroughIndex |-> summarizedThroughIndex]

\* faulty variant: a write with a marker below the stored one is refused
Upserted_MarkerGuarded(records, data) ==
    IF /\ IsDefined(records[KeyOf(data)])
       /\ records[KeyOf(data)][1].summarizedThroughIndex > data.summarizedThroughIndex
    THEN records
    ELSE [records EXCEPT ![KeyOf(data)] =
             Some(Record(data.summary, data.summarizedThroughIndex))]

\* the records after storage.upsertSummary(data): the record of data's key is
\* created or replaced
Upserted(records, data) ==
    [records EXCEPT ![KeyOf(data)] = Some(Record(data.summary, data.summarizedThroughIndex))]

\* the storage backend outlives the manager: it starts empty, or (for the
\* manager with a summary slot of 0) holding under the first key a record whose
\* marker (0 or 1) says nothing is summarized yet, or such a record under each
\* model key of the first entity
InitialStores ==
    { [k \in StoreKeys |-> Undefined] }
    \cup
    { [k \in StoreKeys |->
         IF k = MemoryContext("conversation", "e1", Undefined)
         THEN Some(Record(<<76>>, marker))
         ELSE Undefined] : marker \in {0, 1} }
    \cup
    { [k \in StoreKeys |->
         IF k.entityId = "e1" THEN Some(Record(<<76>>, 1)) ELSE Undefined] }

\* with maxOutputTokens 200 and the default safety margin: budgets 0 and 3
ContextWindows == {400, 403}

SystemMessages == {Undefined, Some(Chars(4, 0))}

NewUserMessages == {Undefined, Some(<<>>), Some(Chars(4, 0))}

\* no Memory Context, or the null model key of either entity
Contexts == {Undefined} \cup { Some(k) : k \in {j \in StoreKeys : j.modelKey = Undefined} }

\* the opaque payload handed through to the summarizer
SummarizationContexts == {Some(7)}

\* what the summarization engine may resolve with: null, the empty string, or
\* a text folding the new messages into the existing summary
SummarizerResults(request) ==
    { Undefined, Some(<<>>),
      Some((IF IsDefined(request.existingSummary) THEN request.existingSummary[1] ELSE <<>>)
           \o <<124>> \o request.messagesText) }

(* ------------------------------ actions ------------------------------- *)

UtilIdle ==
    [op |-> "none", messages |-> <<>>,
     config |-> [contextWindow |-> 0, maxOutputTokens |-> 0, systemMessage |-> Undefined,
                 newUserMessage |-> Undefined, charsPerToken |-> Undefined,
                 safetyMargin |-> Undefined, maxSummaryBudgetTokens |-> 0],
     kept |-> <<>>, split |-> EmptySplit, tokens |-> 0]

Init ==
    /\ util = UtilIdle
    /\ mgr \in Managers
    /\ history = <<>>
    /\ store \in InitialStores
    /\ (\E k \in StoreKeys : IsDefined(store[k])) => mgr = FullManager(Some(0))
    /\ writes = {}
    /\ calls = [p \in Procs |-> IdleCall]
    /\ ncalls = 0
    /\ last = IdleCall
    /\ purge = NoPurge

\* the conversation grows by one message
AppendMessage ==
    /\ Len(history) < MaxHistory
    /\ \E c \in HistoryContents(Len(history) + 1) :
         history' = Append(history, Message(RoleAt(Len(history) + 1), c))
    /\ UNCHANGED <<util, mgr, store, writes, calls, ncalls, last, purge>>

\* caller p calls buildHistory on the conversation so far
BuildHistory(p) ==
    /\ calls[p].pc = "idle"
    /\ ncalls < MaxCalls
    /\ \E contextWindow \in ContextWindows, systemMessage \in SystemMessages,
          newUserMessage \in NewUserMessages, context \in Contexts,
          summarizationContext \in SummarizationContexts :
         calls' = [calls EXCEPT ![p] =
                      BuildHistoryCall(mgr,
                          BuildHistoryInput(history, contextWindow, 200, systemMessage,
                                            newUserMessage, summarizationContext),
                          context)]
    /\ ncalls' = ncalls + 1
    /\ UNCHANGED <<util, mgr, history, store, writes, last, purge>>

\* storage.getSummary resolves with the record stored under the call's key
GetSummaryResolves(p) ==
    /\ calls[p].pc = "getSummary"
    /\ calls' = [calls EXCEPT ![p] = AfterGetSummary(calls[p], store[calls[p].context[1]])]
    /\ UNCHANGED <<util, mgr, history, store, writes, ncalls, last, purge>>

\* faulty variant: a failed load is taken for a missing record
GetSummaryRejects_AsNoRecord(p) ==
    /\ calls[p].pc = "getSummary"
    /\ calls' = [calls EXCEPT ![p] = AfterGetSummary(calls[p], Undefined)]
    /\ UNCHANGED <<util, mgr, history, store, writes, ncalls, last, purge>>

\* storage.getSummary throws or rejects
GetSummaryRejects(p) ==
    /\ calls[p].pc = "getSummary"
    /\ calls' = [calls EXCEPT ![p] = AfterThrow(calls[p])]
    /\ UNCHANGED <<util, mgr, history, store, writes, ncalls, last, purge>>

\* faulty variant: the write is awaited, the record is stored before the
\* call returns
SummarizeResolves_AwaitsUpsert(p) ==
    /\ calls[p].pc = "summarize"
    /\ \E summaryText \in SummarizerResults(calls[p].summarizeCalls[1]) :
         LET after == AfterSummarize(calls[p], summaryText)
         IN  /\ calls' = [calls EXCEPT ![p] = after]
             /\ store' = IF after.upsertCalls /= <<>>
                         THEN Upserted(store, after.upsertCalls[1])
                         ELSE store
    /\ UNCHANGED <<util, mgr, history, writes, ncalls, last, purge>>

\* summarizer.summarize resolves; a text is persisted fire-and-forget
SummarizeResolves(p) ==
    /\ calls[p].pc = "summarize"
    /\ \E summaryText \in SummarizerResults(calls[p].summarizeCalls[1]) :
         LET after == AfterSummarize(calls[p], summaryText)
         IN  /\ calls' = [calls EXCEPT ![p] = after]
             /\ writes' = writes \cup { after.upsertCalls[k] : k \in 1..Len(after.upsertCalls) }
    /\ UNCHANGED <<util, mgr, history, store, ncalls, last, purge>>

\* summarizer.summarize resolves with a text and storage.upsertSummary throws
\* instead of returning a promise: nothing is written
SummarizeResolvesUpsertThrows(p) ==
    /\ calls[p].pc = "summarize"
    /\ \E summaryText \in SummarizerResults(calls[p].summarizeCalls[1]) :
         /\ IsDefined(summaryText) /\ Len(summaryText[1]) > 0
         /\ calls' = [calls EXCEPT ![p] = AfterUpsertThrows(calls[p], summaryText[1])]
    /\ UNCHANGED <<util, mgr, history, store, writes, ncalls, last, purge>>

\* summarizer.summarize throws or rejects
SummarizeRejects(p) ==
    /\ calls[p].pc = "summarize"
    /\ calls' = [calls EXCEPT ![p] = AfterThrow(calls[p])]
    /\ UNCHANGED <<util, mgr, history, store, writes, ncalls, last, purge>>

\* a pending storage.upsertSummary creates or replaces the record of its key
UpsertResolves ==
    /\ \E data \in writes :
         /\ store' = Upserted(store, data)
         /\ writes' = writes \ {data}
    /\ UNCHANGED <<util, mgr, history, calls, ncalls, last, purge>>

\* a pending storage.upsertSummary rejects: the failure is logged, nothing else
UpsertRejects ==
    /\ \E data \in writes : writes' = writes \ {data}
    /\ UNCHANGED <<util, mgr, history, store, calls, ncalls, last, purge>>

\* faulty variant: only the record without a model key is deleted
DeletedByEntity_DefaultKeyOnly(records, entityType, entityId) ==
    [k \in StoreKeys |->
        IF k.entityType = entityType /\ k.entityId = entityId /\ k.modelKey = Undefined
        THEN Undefined
        ELSE records[k]]

\* storage.deleteSummariesByEntity: every record of the entity goes, under
\* every model key
DeletedByEntity(records, entityType, entityId) ==
    [k \in StoreKeys |->
        IF k.entityType = entityType /\ k.entityId = entityId
        THEN Undefined
        ELSE records[k]]

\* deleteSummaries as it resolves: the deleteSummariesByEntity calls it made
DeleteSummariesCall(m, entityType, entityId) ==
    [entityType |-> entityType, entityId |-> entityId,
     deleteCalls |-> IF ~m.storage
                     THEN <<>>
                     ELSE <<[entityType |-> entityType, entityId |-> entityId]>>,
     outcome |-> "resolved"]

\* the entities deleteSummaries is called for
Entities == { [entityType |-> k.entityType, entityId |-> k.entityId] : k \in StoreKeys }

\* deleteSummaries(entityType, entityId); the storage serves each
\* deleteSummariesByEntity call it receives
DeleteSummaries ==
    /\ \E e \in Entities :
         LET call == DeleteSummariesCall(mgr, e.entityType, e.entityId)
         IN  /\ purge' = call
             /\ store' = IF call.deleteCalls = <<>>
                         THEN store
                         ELSE DeletedByEntity(store, call.deleteCalls[1].entityType,
                                              call.deleteCalls[1].entityId)
    /\ UNCHANGED <<util, mgr, history, writes, calls, ncalls, last>>

\* the caller takes the result; it may call again
Return(p) ==
    /\ calls[p].pc = "done"
    /\ calls' = [calls EXCEPT ![p] = IdleCall]
    /\ UNCHANGED <<util, mgr, history, store, writes, ncalls, last, purge>>

\* messages are appended between calls: a call reads the conversation only
\* when it starts
ConversationGrows ==
    /\ \A p \in Procs : calls[p].pc = "idle"
    /\ AppendMessage

\* one caller: buildHistory calls follow one another
Caller == "c1"

Next ==
    \/ ConversationGrows
    \/ BuildHistory(Caller)
    \/ GetSummaryResolves(Caller)
    \/ GetSummaryRejects(Caller)
    \/ SummarizeResolves(Caller)
    \/ SummarizeResolvesUpsertThrows(Caller)
    \/ SummarizeRejects(Caller)
    \/ UpsertResolves
    \/ UpsertRejects
    \/ DeleteSummaries
    \/ Return(Caller)

Spec == Init /\ [][Next]_vars

(* ------------------ two calls in sequence, same conversation ----------- *)

\* conversations of n messages, roles alternating from user
RECURSIVE Conversations(_)
Conversations(n) ==
    IF n = 0
    THEN {<<>>}
    ELSE { Append(ms, Message(RoleAt(n), c)) : ms \in Conversations(n - 1), c \in HistoryContents(n) }

\* conversations long enough for an anchor pair and something after it
LongConversations == UNION { Conversations(n) : n \in 3..MaxHistory }

\* the caller takes the result, which is noted as the previous call
NoteReturn(p) ==
    /\ calls[p].pc = "done"
    /\ calls' = [calls EXCEPT ![p] = IdleCall]
    /\ last' = calls[p]
    /\ UNCHANGED <<util, mgr, history, store, writes, ncalls, purge>>

TwiceInit ==
    /\ util = UtilIdle
    /\ mgr \in {FullManager(Undefined), FullManager(Some(0))}
    /\ history \in LongConversations
    /\ store = [k \in StoreKeys |-> Undefined]
    /\ writes = {}
    /\ calls = [p \in Procs |-> IdleCall]
    /\ ncalls = 0
    /\ last = IdleCall
    /\ purge = NoPurge

TwiceNext ==
    \/ BuildHistory(Caller)
    \/ GetSummaryResolves(Caller)
    \/ GetSummaryRejects(Caller)
    \/ SummarizeResolves(Caller)
    \/ SummarizeResolvesUpsertThrows(Caller)
    \/ SummarizeRejects(Caller)
    \/ UpsertResolves
    \/ UpsertRejects
    \/ NoteReturn(Caller)

SpecTwice == TwiceInit /\ [][TwiceNext]_vars

(* --------------- calls whose awaited collaborators settle -------------- *)

LiveInit ==
    /\ util = UtilIdle
    /\ mgr = FullManager(Some(0))
    /\ history \in LongConversations
    /\ store \in InitialStores
    /\ writes = {}
    /\ calls = [p \in Procs |-> IdleCall]
    /\ ncalls = 0
    /\ last = IdleCall
    /\ purge = NoPurge

LiveNext ==
    \/ BuildHistory(Caller)
    \/ GetSummaryResolves(Caller)
    \/ GetSummaryRejects(Caller)
    \/ SummarizeResolves(Caller)
    \/ SummarizeResolvesUpsertThrows(Caller)
    \/ SummarizeRejects(Caller)
    \/ UpsertResolves
    \/ UpsertRejects
    \/ Return(Caller)

\* the collaborator call that caller p awaits resolves or rejects
AwaitedCallSettles(p) ==
    \/ GetSummaryResolves(p)
    \/ GetSummaryRejects(p)
    \/ SummarizeResolves(p)
    \/ SummarizeResolvesUpsertThrows(p)
    \/ SummarizeRejects(p)

\* every awaited getSummary and summarize call settles in the end; nothing
\* is assumed of the writes, which no call awaits
SpecLive == LiveInit /\ [][LiveNext]_vars /\ WF_vars(AwaitedCallSettles(Caller))

(* ---------------- concurrent calls on one conversation ----------------- *)

RaceInit ==
    /\ util = UtilIdle
    /\ mgr = FullManager(Some(0))
    /\ history \in LongConversations
    /\ store \in InitialStores
    /\ writes = {}
    /\ calls = [p \in Procs |-> IdleCall]
    /\ ncalls = 0
    /\ last = IdleCall
    /\ purge = NoPurge

\* every caller calls once; the calls and the pending writes interleave freely
RaceNext ==
    \E p \in Procs :
        \/ BuildHistory(p)
        \/ GetSummaryResolves(p)
        \/ GetSummaryRejects(p)
        \/ SummarizeResolves(p)
        \/ SummarizeResolvesUpsertThrows(p)
        \/ SummarizeRejects(p)
        \/ UpsertResolves
        \/ UpsertRejects

SpecRace == RaceInit /\ [][RaceNext]_vars

(* ------------- a purge while calls are still in flight ----------------- *)

PurgeInit ==
    /\ util = UtilIdle
    /\ mgr = FullManager(Some(0))
    /\ history \in LongConversations
    /\ store = [k \in StoreKeys |-> Undefined]
    /\ writes = {}
    /\ calls = [p \in Procs |-> IdleCall]
    /\ ncalls = 0
    /\ last = IdleCall
    /\ purge = NoPurge

\* deleteSummaries is called once every caller has made its buildHistory
\* call: no call starts after a purge, but calls and writes may be pending
PurgeAfterCallsStarted ==
    /\ \A p \in Procs : calls[p].pc /= "idle"
    /\ DeleteSummaries

PurgeNext == RaceNext \/ PurgeAfterCallsStarted

SpecPurge == PurgeInit /\ [][PurgeNext]_vars

(* ------------ concurrent calls on a growing conversation -------------- *)

\* a manager with both adapters, an empty store, and a conversation that
\* has just got its third message
GrowInit ==
    /\ util = UtilIdle
    /\ mgr = FullManager(Some(0))
    /\ history \in Conversations(3)
    /\ store = [k \in StoreKeys |-> Undefined]
    /\ writes = {}
    /\ calls = [p \in Procs |-> IdleCall]
    /\ ncalls = 0
    /\ last = IdleCall
    /\ purge = NoPurge

\* messages are appended at any time, also while calls are in flight; each
\* caller makes one call and the calls interleave; nothing is purged
GrowNext ==
    \/ AppendMessage
    \/ \E p \in Procs :
         \/ BuildHistory(p)
         \/ GetSummaryResolves(p)
         \/ GetSummaryRejects(p)
         \/ SummarizeResolves(p)
         \/ SummarizeResolvesUpsertThrows(p)
         \/ SummarizeRejects(p)
    \/ UpsertResolves
    \/ UpsertRejects

SpecGrow == GrowInit /\ [][GrowNext]_vars

(* ------------------- the split functions, called directly ------------- *)

\* message contents the inputs are drawn from; c marks the message's characters
ContentChoices(c) ==
    { StringContent(Chars(3, c)),
      StringContent(Chars(8, c)),
      PartsContent(<<TextPart(Chars(4, c)), ImagePart(Chars(1, c))>>),
      PartsContent(<<ImagePart(Chars(1, c)), BareTextPart>>) }

\* chronological message lists of length n, roles alternating from user
RECURSIVE MessageLists(_)
MessageLists(n) ==
    IF n = 0
    THEN {<<>>}
    ELSE { Append(ms, Message(RoleAt(n), c)) : ms \in MessageLists(n - 1), c \in ContentChoices(n) }

UtilMessages == UNION { MessageLists(n) : n \in 0..MaxMsgs }

SplitConfigs ==
    [contextWindow : {400, 402, 403, 405},
     maxOutputTokens : {200},
     systemMessage : {Undefined, Some(Chars(4, 0))},
     newUserMessage : {Undefined, Some(<<>>), Some(Chars(5, 0))},
     charsPerToken : {Undefined, Some(0), Some(2)},
     safetyMargin : {Undefined, Some(201)},
     maxSummaryBudgetTokens : {-1, 0, 1}]

UtilInit ==
    /\ util \in [op : {"input"}, messages : UtilMessages, config : SplitConfigs,
                 kept : {<<>>}, split : {EmptySplit}, tokens : {0}]
    /\ mgr = Constructor(FALSE, FALSE, ManagerConfig(Undefined, Undefined))
    /\ history = <<>>
    /\ store = [k \in StoreKeys |-> Undefined]
    /\ writes = {}
    /\ calls = [p \in Procs |-> IdleCall]
    /\ ncalls = 0
    /\ last = IdleCall
    /\ purge = NoPurge

\* MemorySplitUtil.truncateToTokenBudget(messages, config)
TruncateToTokenBudget ==
    /\ util.op = "input"
    /\ util' = [util EXCEPT !.op = "truncate",
                            !.kept = truncateToTokenBudget(util.messages, util.config)]
    /\ UNCHANGED <<mgr, history, store, writes, calls, ncalls, last, purge>>

\* MemorySplitUtil.splitForThreeTierMemory(messages, config)
SplitForThreeTierMemory ==
    /\ util.op = "input"
    /\ util' = [util EXCEPT !.op = "split",
                            !.split = splitForThreeTierMemory(util.messages, util.config)]
    /\ UNCHANGED <<mgr, history, store, writes, calls, ncalls, last, purge>>

UtilNext == TruncateToTokenBudget \/ SplitForThreeTierMemory

SpecUtil == UtilInit /\ [][UtilNext]_vars

(* ------------------ the estimation functions, called directly --------- *)

\* the longest text the estimated contents hold
MaxChars == 5

\* the parts a multi-part content is made of: text of every length, a text
\* part without text, an image
EstimatedParts ==
    { TextPart(Chars(n, 1)) : n \in 0..MaxChars } \cup {BareTextPart, ImagePart(Chars(3, 2))}

\* plain texts of every length, the empty one included, and part lists of
\* up to three parts, the empty one included
EstimatedContents ==
    { StringContent(Chars(n, 1)) : n \in 0..MaxChars }
    \cup { PartsContent(<<>>) }
    \cup { PartsContent(<<a>>) : a \in EstimatedParts }
    \cup { PartsContent(<<a, b>>) : a \in EstimatedParts, b \in EstimatedParts }
    \cup { PartsContent(<<a, b, ImagePart(Chars(3, 2))>>) : a \in EstimatedParts, b \in EstimatedParts }

\* the charsPerToken argument: left out, negative, zero, and ratios that
\* divide the lengths evenly or not
EstimatedRatios == {Undefined, Some(-1), Some(0), Some(1), Some(2), Some(3)}

EstimateInit ==
    /\ util \in { [UtilIdle EXCEPT !.op = "input",
                                   !.messages = <<Message("user", content)>>,
                                   !.config.charsPerToken = charsPerToken] :
                    content \in EstimatedContents, charsPerToken \in EstimatedRatios }
    /\ mgr = Constructor(FALSE, FALSE, ManagerConfig(Undefined, Undefined))
    /\ history = <<>>
    /\ store = [k \in StoreKeys |-> Undefined]
    /\ writes = {}
    /\ calls = [p \in Procs |-> IdleCall]
    /\ ncalls = 0
    /\ last = IdleCall
    /\ purge = NoPurge

\* TokenEstimationUtil.estimateContentTokens(content, charsPerToken)
EstimateContentTokens ==
    /\ util.op = "input"
    /\ util' = [util EXCEPT !.op = "estimate",
                            !.tokens = estimateContentTokens(util.messages[1].content,
                                                             util.config.charsPerToken)]
    /\ UNCHANGED <<mgr, history, store, writes, calls, ncalls, last, purge>>

EstimateNext == EstimateContentTokens

SpecEstimate == EstimateInit /\ [][EstimateNext]_vars

(* ====================================================================== *)
(* Properties                                                             *)
(* ====================================================================== *)

Range(s) == { s[k] : k \in 1..Len(s) }

\* the last j messages of a list
Suffix(messages, j) == SubSeq(messages, Len(messages) - j + 1, Len(messages))

Active(p) == calls[p].pc /= "idle"

Done(p) == calls[p].pc = "done"

AllHistory(p) == calls[p].input[1].allHistory

\* the budget configuration of caller p's call
CallConfig(p) ==
    [contextWindow |-> calls[p].input[1].contextWindow,
     maxOutputTokens |-> calls[p].input[1].maxOutputTokens,
     systemMessage |-> calls[p].input[1].systemMessage,
     newUserMessage |-> calls[p].input[1].newUserMessage,
     charsPerToken |-> mgr.charsPerToken,
     safetyMargin |-> Undefined,
     maxSummaryBudgetTokens |-> mgr.maxSummaryBudgetTokens]

AvailableBudget(p) == calculateHistoryBudget(CallConfig(p))

HistoryTokens(p) == MessagesTokens(AllHistory(p), mgr.charsPerToken)

\* the appended pending message: a user-role message carrying a non-empty
\* newUserMessage (an empty one counts as not provided)
PendingMessage(p) ==
    LET newUserMessage == calls[p].input[1].newUserMessage
    IN  IF IsDefined(newUserMessage) /\ newUserMessage[1] /= <<>>
        THEN <<Message("user", StringContent(newUserMessage[1]))>>
        ELSE <<>>

NoCollaboratorCalls(p) ==
    /\ calls[p].getSummaryCalls = <<>>
    /\ calls[p].summarizeCalls = <<>>
    /\ calls[p].upsertCalls = <<>>

FullyEnabled == mgr.storage /\ mgr.summarizer /\ mgr.summarizationEnabled

\* the call has returned the original sequence plus the pending message,
\* without calling a collaborator
ReturnsOriginal(p) ==
    /\ Done(p)
    /\ calls[p].result = AllHistory(p) \o PendingMessage(p)
    /\ NoCollaboratorCalls(p)

HistoryFits(p) == Len(AllHistory(p)) > 0 /\ HistoryTokens(p) <= AvailableBudget(p)

\* C1 as stated: whenever a non-empty history's total estimated tokens are
\* within the available budget, buildHistory returns exactly the original
\* sequence followed by the pending message, with no storage or summarizer call.
C1_FittingHistoryReturned ==
    \A p \in Procs : Active(p) /\ HistoryFits(p) => ReturnsOriginal(p)

\* C1 amended: the same, for an available budget > 0 (a budget of exactly 0
\* is "exhausted": a history of two or more messages of no tokens is then cut
\* to nothing).
C1_FittingHistoryReturnedPositiveBudget ==
    \A p \in Procs :
        Active(p) /\ HistoryFits(p) /\ AvailableBudget(p) > 0
            => ReturnsOriginal(p)

C1_Witness ==
    \E p \in Procs :
        /\ Active(p) /\ HistoryFits(p) /\ AvailableBudget(p) > 0
        /\ Len(AllHistory(p)) >= 3
        /\ HistoryTokens(p) = AvailableBudget(p)
        /\ FullyEnabled /\ IsDefined(calls[p].context)
        /\ PendingMessage(p) /= <<>>
        /\ ReturnsOriginal(p)

\* C2: a truncated split with a non-empty anchor has the first two input
\* messages as firstPair, tiers whose lengths add up to the input length, and
\* firstPair ++ droppedMessages ++ recentMessages equal to the input.
C2_TiersPartitionInput ==
    util.op = "split" /\ util.split.wasTruncated /\ util.split.firstPair /= <<>>
        => /\ util.split.firstPair = SubSeq(util.messages, 1, 2)
           /\ Len(util.split.firstPair) + Len(util.split.droppedMessages)
                + Len(util.split.recentMessages) = Len(util.messages)
           /\ util.split.firstPair \o util.split.droppedMessages \o util.split.recentMessages
                = util.messages

C2_Witness ==
    /\ util.op = "split" /\ util.split.wasTruncated /\ util.split.firstPair /= <<>>
    /\ util.split.droppedMessages /= <<>>
    /\ util.split.recentMessages /= <<>>

\* C3: the result of truncateToTokenBudget is a contiguous suffix of the
\* input, in the input's order.
C3_TruncationIsSuffix ==
    util.op = "truncate"
        => /\ Len(util.kept) <= Len(util.messages)
           /\ util.kept = Suffix(util.messages, Len(util.kept))

C3_Witness ==
    /\ util.op = "truncate"
    /\ Len(util.kept) >= 2
    /\ Len(util.kept) < Len(util.messages)

UtilBudget == calculateHistoryBudget(util.config)

UtilTokens(messages) == MessagesTokens(messages, util.config.charsPerToken)

\* the spec's example: three messages of 1000 characters (250 tokens each)
\* under contextWindow 1000 and maxOutputTokens 200 (a budget of 600 tokens)
ExampleThreeLong ==
    [k \in 1..3 |-> Message(RoleAt(k), StringContent(Chars(1000, k)))]

ExampleBudgetConfig ==
    [contextWindow |-> 1000, maxOutputTokens |-> 200, systemMessage |-> Undefined,
     newUserMessage |-> Undefined, charsPerToken |-> Undefined, safetyMargin |-> Undefined]

\* C4: with a positive budget the result of truncateToTokenBudget is exactly
\* the longest suffix of the input whose total estimated tokens are within
\* the budget; three 250-token messages under a 600-token budget give the
\* last two.
C4_LongestFittingSuffix ==
    /\ util.op = "truncate" /\ UtilBudget > 0
        => /\ util.kept = Suffix(util.messages, Len(util.kept))
           /\ UtilTokens(util.kept) <= UtilBudget
           /\ \A j \in 0..Len(util.messages) :
                UtilTokens(Suffix(util.messages, j)) <= UtilBudget => j <= Len(util.kept)
    /\ truncateToTokenBudget(ExampleThreeLong, ExampleBudgetConfig)
         = SubSeq(ExampleThreeLong, 2, 3)

\* the walk stopped at an overflowing message although an older one would
\* still fit on its own
C4_Witness ==
    /\ util.op = "truncate" /\ UtilBudget > 0
    /\ util.kept /= <<>>
    /\ Len(util.kept) + 2 <= Len(util.messages)
    /\ \E j \in 1..(Len(util.messages) - Len(util.kept) - 1) :
         UtilTokens(<<util.messages[j]>>) > 0
         /\ UtilTokens(util.kept) + UtilTokens(<<util.messages[j]>>) <= UtilBudget

\* the messages of the result that are messages of the history
VerbatimHistory(p) ==
    LET FromHistory(m) == m \in Range(AllHistory(p))
    IN  SelectSeq(calls[p].result, FromHistory)

\* C5: the verbatim history messages in buildHistory's result have total
\* estimated tokens within the available budget, and none is returned when
\* the available budget is <= 0.
C5_BoundedOutput ==
    \A p \in Procs :
        Done(p) => /\ MessagesTokens(VerbatimHistory(p), mgr.charsPerToken) <= AvailableBudget(p)
                   /\ (AvailableBudget(p) <= 0 => VerbatimHistory(p) = <<>>)

\* the split signalled the fallback: truncated, with an empty anchor
FallbackSignalled(p) ==
    Active(p) /\ calls[p].split.wasTruncated /\ calls[p].split.firstPair = <<>>

\* the split was applied: truncated, with a non-empty anchor
ThreeTierPath(p) ==
    Active(p) /\ calls[p].split.wasTruncated /\ calls[p].split.firstPair /= <<>>

\* C6: on the fallback signal buildHistory returns truncateToTokenBudget of
\* the full original history under the same budget, followed by the pending
\* message, and calls neither storage nor summarizer, with or without a
\* Memory Context.
C6_FallbackIsSlidingWindow ==
    \A p \in Procs :
        FallbackSignalled(p)
            => /\ Done(p)
               /\ calls[p].result
                    = truncateToTokenBudget(AllHistory(p), CallConfig(p)) \o PendingMessage(p)
               /\ NoCollaboratorCalls(p)

C6_Witness ==
    \E p \in Procs :
        /\ FallbackSignalled(p) /\ Done(p)
        /\ FullyEnabled /\ IsDefined(calls[p].context)
        /\ IsDefined(calls[p].input[1].systemMessage)
        /\ AvailableBudget(p) > 0
        /\ VerbatimHistory(p) /= <<>>
        /\ Len(VerbatimHistory(p)) < Len(AllHistory(p))
        /\ PendingMessage(p) /= <<>>

\* the text of the summary the call resolved: the engine's new text if one
\* was persisted, else the loaded record's
ResolvedSummary(p) ==
    IF calls[p].upsertCalls /= <<>>
    THEN calls[p].upsertCalls[1].summary
    ELSE calls[p].existing[1].summary

\* what the result holds between the anchor pair and the recent tier
BetweenAnchorAndRecent(p) ==
    SubSeq(calls[p].result, 3,
           Len(calls[p].result) - Len(calls[p].split.recentMessages) - Len(PendingMessage(p)))

\* C7: on the three-tier path the result is the two anchor messages, then the
\* summary message if one was resolved (one user-role message at index 2,
\* '[Conversation Summary]\n' followed by the summary text), then the recent
\* tier, then the pending message; no dropped message appears verbatim.
C7_ThreeTierAssembly ==
    \A p \in Procs :
        ThreeTierPath(p) /\ Done(p)
            => LET H == AllHistory(p)
                   r == Len(calls[p].split.recentMessages)
                   res == calls[p].result
                   mid == BetweenAnchorAndRecent(p)
               IN  /\ IF calls[p].path \in {"SUMMARY_SUCCESS", "SUMMARY_CACHED_HIT",
                                             "SUMMARY_STALE_FALLBACK"}
                      THEN /\ mid = <<SummaryMessage(ResolvedSummary(p))>>
                           /\ res[3].role = "user"
                           /\ res[3].content.kind = "string"
                           /\ SubSeq(res[3].content.text, 1, Len(SUMMARY_PREFIX)) = SUMMARY_PREFIX
                      ELSE mid = <<>>
                   /\ res = SubSeq(H, 1, 2) \o mid \o Suffix(H, r) \o PendingMessage(p)
                   /\ \A k \in 3..(Len(H) - r) : H[k] \notin Range(res)
                   /\ VerbatimHistory(p) = SubSeq(H, 1, 2) \o Suffix(H, r)

C7_Witness ==
    \E p \in Procs :
        /\ ThreeTierPath(p) /\ Done(p)
        /\ BetweenAnchorAndRecent(p) /= <<>>
        /\ calls[p].split.recentMessages /= <<>>
        /\ calls[p].split.droppedMessages /= <<>>
        /\ PendingMessage(p) /= <<>>

TiersWithoutSummary(p) ==
    calls[p].split.firstPair \o calls[p].split.recentMessages \o PendingMessage(p)

\* caller p's call starts in this step
Starts(p) == calls[p].pc = "idle" /\ calls'[p].pc /= "idle"

\* C8: without a Memory Context, on the three-tier path, buildHistory calls
\* neither storage nor summarizer and returns anchor + recent + pending with
\* no summary message; the store is left unchanged.
C8_NoContextNoSummary ==
    /\ [](\A p \in Procs :
            ThreeTierPath(p) /\ ~IsDefined(calls[p].context)
                => /\ Done(p)
                   /\ NoCollaboratorCalls(p)
                   /\ calls[p].result = TiersWithoutSummary(p))
    /\ [][\A p \in Procs :
            Starts(p) /\ ~IsDefined(calls'[p].context) => store' = store /\ writes' = writes]_vars

C8_Witness ==
    \E p \in Procs :
        /\ ThreeTierPath(p) /\ ~IsDefined(calls[p].context) /\ Done(p)
        /\ FullyEnabled
        /\ calls[p].split.droppedMessages /= <<>>
        /\ \E k \in StoreKeys : IsDefined(store[k])

\* C9: summary resolution calls neither getSummary, summarize nor
\* upsertSummary and yields no summary message when summarization is
\* disabled, or an adapter is absent, or the dropped tier is empty;
\* buildHistory then returns anchor + recent + pending.
C9_SummarizationSkipped ==
    \A p \in Procs :
        /\ ThreeTierPath(p) /\ IsDefined(calls[p].context)
        /\ \/ ~mgr.summarizationEnabled
           \/ ~mgr.storage
           \/ ~mgr.summarizer
           \/ calls[p].split.droppedMessages = <<>>
        => /\ Done(p)
           /\ NoCollaboratorCalls(p)
           /\ calls[p].result = TiersWithoutSummary(p)

C9_Witness ==
    \E p \in Procs :
        /\ ThreeTierPath(p) /\ IsDefined(calls[p].context) /\ Done(p)
        /\ FullyEnabled
        /\ calls[p].split.droppedMessages = <<>>
        /\ calls[p].split.recentMessages /= <<>>

\* the record stored under the call's Memory Context key
StoredRecord(context) == store[context[1]]

\* C10 as stated: when a record with marker m exists and the current dropped
\* tier has at most m - 1 messages, buildHistory returns the stored summary
\* as the summary message: a call starting on the three-tier path with both
\* adapters and summarization enabled does not return without it.
C10_StoredSummaryReused ==
    [][\A p \in Procs :
        /\ Starts(p) /\ FullyEnabled /\ IsDefined(calls'[p].context)
        /\ calls'[p].split.wasTruncated /\ calls'[p].split.firstPair /= <<>>
        /\ IsDefined(StoredRecord(calls'[p].context))
        /\ Len(calls'[p].split.droppedMessages)
             <= StoredRecord(calls'[p].context)[1].summarizedThroughIndex - 1
        => ~(calls'[p].pc = "done" /\ calls'[p].result = TiersWithoutSummary(p)')]_vars

\* C10 amended: a record with marker m returned by getSummary is read as
\* max(m - 1, 0) already-summarized dropped messages; when the current
\* dropped tier is non-empty and has at most m - 1 messages, buildHistory
\* returns the stored summary text as the summary message, with no
\* summarization-engine call and no write to the store.
C10_LoadedSummaryReused ==
    \A p \in Procs :
        IsDefined(calls[p].existing)
            => LET m == calls[p].existing[1].summarizedThroughIndex
                   covered == IF m - 1 > 0 THEN m - 1 ELSE 0
                   dropped == calls[p].split.droppedMessages
               IN  /\ calls[p].newly = SubSeq(dropped, covered + 1, Len(dropped))
                   /\ Len(dropped) >= 1 /\ Len(dropped) <= m - 1
                        => /\ Done(p)
                           /\ calls[p].result
                                = calls[p].split.firstPair
                                  \o <<SummaryMessage(calls[p].existing[1].summary)>>
                                  \o calls[p].split.recentMessages \o PendingMessage(p)
                           /\ calls[p].summarizeCalls = <<>>
                           /\ calls[p].upsertCalls = <<>>

\* a record written for two dropped messages is reused for a dropped tier of one
C10_Witness ==
    \E p \in Procs :
        /\ IsDefined(calls[p].existing)
        /\ Done(p)
        /\ calls[p].path = "SUMMARY_CACHED_HIT"
        /\ Len(calls[p].split.droppedMessages)
             < calls[p].existing[1].summarizedThroughIndex - 1

(* ------------------------- summary resolution -------------------------- *)

\* the count of dropped messages the record loaded by caller p already covers
AlreadyCovered(p) ==
    IF IsDefined(calls[p].existing) /\ calls[p].existing[1].summarizedThroughIndex - 1 > 0
    THEN calls[p].existing[1].summarizedThroughIndex - 1
    ELSE 0

\* the summary text of the record caller p loaded, null if there was none
LoadedSummary(p) ==
    IF IsDefined(calls[p].existing) THEN Some(calls[p].existing[1].summary) ELSE Undefined

\* C11: when the summarization engine is called it receives the suffix of the
\* current dropped tier starting at max(marker - 1, 0) (the whole tier when no
\* record was loaded or its marker is <= 1), rendered as "role: content"
\* joined by blank lines, with the loaded record's summary text (null when
\* there is none) and the call's summarizationContext unchanged.
C11_EngineReceivesUncoveredSuffix ==
    \A p \in Procs :
        calls[p].summarizeCalls /= <<>>
            => LET dropped == calls[p].split.droppedMessages
               IN  calls[p].summarizeCalls =
                     <<[messagesText |->
                            MessagesText(SubSeq(dropped, AlreadyCovered(p) + 1, Len(dropped))),
                        existingSummary |-> LoadedSummary(p),
                        context |-> calls[p].input[1].summarizationContext]>>

\* a record covering the first dropped message was loaded and only the
\* second one is sent to the engine
C11_Witness ==
    \E p \in Procs :
        /\ calls[p].summarizeCalls /= <<>>
        /\ IsDefined(calls[p].existing)
        /\ AlreadyCovered(p) = 1
        /\ Len(calls[p].split.droppedMessages) = 2
        /\ calls[p].summarizeCalls[1].messagesText
             = MessagesText(<<calls[p].split.droppedMessages[2]>>)
        /\ calls[p].summarizeCalls[1].existingSummary = LoadedSummary(p)

\* what buildHistory returns on the three-tier path with the given summary
\* text, or with no summary message when there is none
TiersWithSummary(p, summary) ==
    calls[p].split.firstPair
    \o (IF IsDefined(summary) THEN <<SummaryMessage(summary[1])>> ELSE <<>>)
    \o calls[p].split.recentMessages
    \o PendingMessage(p)

\* C12: when the engine returns a summary text, buildHistory issues one
\* upsert for the call's Memory Context key carrying that text and
\* summarizedThroughIndex = length of the current dropped tier + 1, and the
\* returned sequence carries the new text as the summary message.
C12_NewSummaryPersistedAndReturned ==
    \A p \in Procs :
        calls[p].upsertCalls /= <<>>
            => /\ Len(calls[p].upsertCalls) = 1
               /\ KeyOf(calls[p].upsertCalls[1]) = calls[p].context[1]
               /\ calls[p].upsertCalls[1].summarizedThroughIndex
                    = Len(calls[p].split.droppedMessages) + 1
               /\ Done(p)
               /\ calls[p].result = TiersWithSummary(p, Some(calls[p].upsertCalls[1].summary))

\* the engine was called and resolved without a summary text
EngineGaveNothing(call) ==
    /\ call.pc = "done"
    /\ call.summarizeCalls /= <<>>
    /\ call.path \in {"SUMMARY_STALE_FALLBACK", "SUMMARY_NONE"}

\* C13: when the engine returns null nothing is persisted and the store is
\* unchanged; the returned sequence carries the loaded record's summary as
\* the summary message if a record was loaded, and no summary message
\* otherwise.
C13_NullResultFallsBack ==
    /\ [](\A p \in Procs :
            EngineGaveNothing(calls[p])
                => /\ calls[p].upsertCalls = <<>>
                   /\ calls[p].result = TiersWithSummary(p, LoadedSummary(p)))
    /\ [][\A p \in Procs :
            calls[p].pc = "summarize" /\ EngineGaveNothing(calls'[p])
                => store' = store /\ writes' = writes]_vars

\* a record was loaded, the engine gave nothing, the record is still stored
C13_Witness ==
    \E p \in Procs :
        /\ EngineGaveNothing(calls[p])
        /\ IsDefined(calls[p].existing)
        /\ store[calls[p].context[1]] = calls[p].existing
        /\ calls[p].result /= TiersWithoutSummary(p)

\* a collaborator of caller p's call threw or rejected
CollaboratorFailed(p) == calls[p].path = "SUMMARY_ERROR"

\* C14: no exception or rejection of getSummary, summarize or upsertSummary
\* propagates out of buildHistory: the call never rejects, a call whose
\* collaborator failed has resolved with a message sequence, and the
\* rejection of a pending write leaves every call as it was.
C14_CollaboratorFailuresContained ==
    /\ [](\A p \in Procs :
            /\ calls[p].pc \in {"idle", "getSummary", "summarize", "done"}
            /\ CollaboratorFailed(p)
                 => /\ Done(p)
                    /\ \A k \in 1..Len(calls[p].result) :
                         calls[p].result[k].role \in MessageRole
                    /\ SubSeq(calls[p].result, 1, 2) = calls[p].split.firstPair)
    /\ [][(writes' /= writes /\ writes' \subseteq writes) => calls' = calls]_vars

\* summarize or upsertSummary failed after getSummary had loaded a record
C14_Witness ==
    \E p \in Procs :
        /\ CollaboratorFailed(p) /\ Done(p)
        /\ calls[p].upsertCalls /= <<>>
        /\ IsDefined(calls[p].existing)

\* C15: when the engine throws or rejects after a record was loaded, the
\* returned sequence carries the existing summary as the summary message;
\* only when no record exists is there no summary message.
C15_EngineThrowFallsBack ==
    \A p \in Procs :
        /\ CollaboratorFailed(p)
        /\ calls[p].summarizeCalls /= <<>>
        /\ calls[p].upsertCalls = <<>>
        => calls[p].result = TiersWithSummary(p, LoadedSummary(p))

(* --------------------------- the stored record ------------------------- *)

\* C16: the summarized-through marker stored under a key never decreases
\* from one state to the next, across any interleaving of buildHistory calls
\* for the same Memory Context, no purge in between, each upsert atomic.
C16_MarkerNeverDecreases ==
    [][\A k \in StoreKeys :
        IsDefined(store[k]) /\ IsDefined(store'[k])
            => store'[k][1].summarizedThroughIndex >= store[k][1].summarizedThroughIndex]_vars

\* the record an upsert leaves in the store
RecordOf(data) == Some(Record(data.summary, data.summarizedThroughIndex))

\* caller p's call has the inputs and the Memory Context of the previous call
SameAsLast(p) ==
    /\ Active(p)
    /\ IsDefined(last.input)
    /\ calls[p].input = last.input
    /\ calls[p].context = last.context

\* the storage worked and persisted what the previous call wrote: no
\* collaborator failed in that call, and its write is pending, or stored, or
\* is what caller p's call loaded
LastWriteKept(p) ==
    /\ last.path /= "SUMMARY_ERROR"
    /\ last.path = "SUMMARY_SUCCESS"
         => \/ last.upsertCalls[1] \in writes
            \/ store[KeyOf(last.upsertCalls[1])] = RecordOf(last.upsertCalls[1])
            \/ calls[p].existing = RecordOf(last.upsertCalls[1])

\* C17 as stated: the second of two calls in sequence with identical inputs
\* and the same Memory Context, the storage persisting between them, makes
\* no summarization-engine call.
C17_SecondCallSkipsEngine ==
    \A p \in Procs :
        SameAsLast(p) /\ LastWriteKept(p) => calls[p].summarizeCalls = <<>>

\* the previous call made no collaborator call, or it returned a summary
\* (cached or newly generated) whose record is the one caller p's call loaded
LastSummaryLoaded(p) ==
    \/ last.getSummaryCalls = <<>>
    \/ last.path = "SUMMARY_CACHED_HIT" /\ calls[p].existing = last.existing
    \/ last.path = "SUMMARY_SUCCESS" /\ calls[p].existing = RecordOf(last.upsertCalls[1])

\* C17 amended: the second call makes no summarization-engine call when the
\* first call made no collaborator call, or returned a cached or newly
\* generated summary whose record is the one the second call loads.
C17_SecondCallSkipsEngineOnceStored ==
    \A p \in Procs :
        SameAsLast(p) /\ LastSummaryLoaded(p) => calls[p].summarizeCalls = <<>>

\* the first call summarized and wrote; the second one loaded that record
C17_Witness ==
    \E p \in Procs :
        /\ SameAsLast(p) /\ Done(p)
        /\ last.path = "SUMMARY_SUCCESS"
        /\ calls[p].existing = RecordOf(last.upsertCalls[1])
        /\ calls[p].path = "SUMMARY_CACHED_HIT"
        /\ Len(calls[p].split.droppedMessages) = 2

\* C18: concurrent calls for one Memory Context may load the same record
\* before either write lands, summarize overlapping messages and persist in
\* either order; whatever the markers, an applied upsert replaces the record
\* of its key and nothing else (last write wins, no compare-and-swap).
C18_LastWriteWins ==
    /\ [](\A data \in writes : Upserted(store, data)[KeyOf(data)] = RecordOf(data))
    /\ [][store' /= store
            => \E data \in writes :
                 /\ writes' = writes \ {data}
                 /\ store'[KeyOf(data)] = RecordOf(data)
                 /\ \A k \in StoreKeys \ {KeyOf(data)} : store'[k] = store[k]]_vars

\* both calls loaded the same record and summarized the same message; the
\* write with the higher marker is stored, the one with the lower marker is
\* still to land
C18_Witness ==
    \E p \in Procs, q \in Procs :
        /\ p /= q
        /\ calls[p].path = "SUMMARY_SUCCESS" /\ calls[q].path = "SUMMARY_SUCCESS"
        /\ calls[p].context = calls[q].context
        /\ calls[p].existing = calls[q].existing
        /\ Range(calls[p].newly) \cap Range(calls[q].newly) /= {}
        /\ calls[p].upsertCalls[1].summarizedThroughIndex
             < calls[q].upsertCalls[1].summarizedThroughIndex
        /\ store[calls[q].context[1]] = RecordOf(calls[q].upsertCalls[1])
        /\ calls[p].upsertCalls[1] \in writes

\* C19: persistence is fire-and-forget: buildHistory returns the assembled
\* sequence, new summary included, in the step in which the engine answers,
\* the write being only pending and the store as it was; a write that settles
\* later, applied or rejected, changes no call's result, and a rejected one
\* leaves the store as it was.
C19_FireAndForgetWrite ==
    /\ [](\A p \in Procs :
            calls[p].path = "SUMMARY_SUCCESS"
                => /\ Done(p)
                   /\ calls[p].result
                        = TiersWithSummary(p, Some(calls[p].upsertCalls[1].summary)))
    /\ [][\A p \in Procs :
            calls[p].pc = "summarize" /\ calls'[p].path = "SUMMARY_SUCCESS"
                => /\ calls'[p].pc = "done"
                   /\ calls'[p].upsertCalls[1] \in writes'
                   /\ store' = store]_vars
    /\ [][\A data \in writes :
            writes' = writes \ {data}
                => /\ calls' = calls
                   /\ store' = store \/ store' = Upserted(store, data)]_vars

\* the call has returned the new summary; its write is still pending and the
\* store does not hold it
C19_Witness ==
    \E p \in Procs :
        /\ Done(p) /\ calls[p].path = "SUMMARY_SUCCESS"
        /\ calls[p].upsertCalls[1] \in writes
        /\ store[calls[p].context[1]] /= RecordOf(calls[p].upsertCalls[1])
        /\ calls[p].result = TiersWithSummary(p, Some(calls[p].upsertCalls[1].summary))

\* the paths on which buildHistory issues no write
PathsWithoutWrite ==
    {"NO_TRUNCATION_NEEDED", "SLIDING_WINDOW_FALLBACK", "NO_CONTEXT", "SUMMARY_SKIPPED",
     "SUMMARY_CACHED_HIT", "SUMMARY_STALE_FALLBACK", "SUMMARY_NONE"}

\* C20: buildHistory reads and writes only under the supplied Memory Context
\* key, issues at most one upsert and only after an engine call, none on the
\* no-truncation, fallback, no-context, skipped, cached-hit and
\* engine-failure paths; a step of a call leaves the store as it was and adds
\* at most that one pending write; a record disappears only in a step that is
\* neither a call's nor a write's (deleteSummaries), and an applied write
\* touches the record of its key only.
C20_StoreTouchedOnlyByOwnUpsert ==
    /\ [](\A p \in Procs :
            /\ \A k \in 1..Len(calls[p].getSummaryCalls) :
                 calls[p].getSummaryCalls[k] = calls[p].context
            /\ Len(calls[p].upsertCalls) <= 1
            /\ \A k \in 1..Len(calls[p].upsertCalls) :
                 /\ calls[p].upsertCalls[k].entityType = calls[p].context[1].entityType
                 /\ calls[p].upsertCalls[k].entityId = calls[p].context[1].entityId
                 /\ calls[p].upsertCalls[k].modelKey = calls[p].context[1].modelKey
                 /\ calls[p].summarizeCalls /= <<>>
            /\ calls[p].path \in PathsWithoutWrite => calls[p].upsertCalls = <<>>)
    /\ [][calls' /= calls
            => /\ store' = store
               /\ \/ writes' = writes
                  \/ \E p \in Procs :
                       /\ calls[p].pc = "summarize"
                       /\ calls'[p].path = "SUMMARY_SUCCESS"
                       /\ writes' = writes \cup {calls'[p].upsertCalls[1]}]_vars
    /\ [][\A k \in StoreKeys :
            IsDefined(store[k]) /\ ~IsDefined(store'[k])
                => calls' = calls /\ writes' = writes]_vars
    /\ [][store' /= store /\ writes' /= writes
            => \E data \in writes :
                 /\ store'[KeyOf(data)] = RecordOf(data)
                 /\ \A k \in StoreKeys \ {KeyOf(data)} : store'[k] = store[k]]_vars

\* a call for the second entity wrote its record, which is stored; the
\* record of the first entity is as it was loaded into the store at the start
C20_Witness ==
    \E p \in Procs :
        /\ Done(p) /\ calls[p].path = "SUMMARY_SUCCESS"
        /\ calls[p].context[1].entityId = "e2"
        /\ store[calls[p].context[1]] = RecordOf(calls[p].upsertCalls[1])
        /\ store[MemoryContext("conversation", "e1", Undefined)] = Some(Record(<<76>>, 1))
        /\ writes = {}

(* --------------------------- C21: entity purge ------------------------ *)

\* the keys of the entity a deleteSummaries call names
KeysOfEntity(call) ==
    { k \in StoreKeys : k.entityType = call.entityType /\ k.entityId = call.entityId }

\* C21: a resolved deleteSummaries call of a manager with a storage adapter
\* has made exactly one deleteSummariesByEntity call, with its own two
\* arguments, and without one it has made none; in the step of the call no
\* record of the named entity is left under any model key, the records of
\* every other entity are as before, and without a storage adapter the store
\* is as before; the call touches no buildHistory call and no pending write.
C21_PurgeDeletesEntityOnly ==
    /\ [](purge.outcome = "resolved"
            => IF mgr.storage
               THEN purge.deleteCalls
                        = <<[entityType |-> purge.entityType, entityId |-> purge.entityId]>>
               ELSE purge.deleteCalls = <<>>)
    /\ [][(\/ purge' /= purge
           \/ \E k \in StoreKeys : IsDefined(store[k]) /\ ~IsDefined(store'[k]))
            => /\ purge'.outcome = "resolved"
               /\ calls' = calls /\ writes' = writes
               /\ IF mgr.storage
                  THEN /\ \A k \in KeysOfEntity(purge') : store'[k] = Undefined
                       /\ \A k \in StoreKeys \ KeysOfEntity(purge') : store'[k] = store[k]
                  ELSE store' = store]_vars

\* a call loaded the record of its entity, which a purge of that entity
\* has since deleted with one storage call, under both of its model keys,
\* while the record of the other entity is still stored
C21_Witness ==
    /\ purge.outcome = "resolved"
    /\ Len(purge.deleteCalls) = 1
    /\ \E p \in Procs :
         /\ IsDefined(calls[p].existing)
         /\ calls[p].context[1] \in KeysOfEntity(purge)
    /\ Cardinality(KeysOfEntity(purge)) = 2
    /\ \A k \in KeysOfEntity(purge) : store[k] = Undefined
    /\ \E k \in StoreKeys \ KeysOfEntity(purge) : IsDefined(store[k])

(* ------------------ C22: inputs shorter than a first pair ------------- *)

\* splitForThreeTierMemory has been applied to the input
SplitDone == util.op = "split"

C23_NotTruncatedOnlyWhenFits ==
    SplitDone /\ util.split.wasTruncated = FALSE
        => UtilTokens(util.messages) <= UtilBudget

(* ---------------------- C24: the fallback signal ---------------------- *)

\* the estimated cost of the first two messages of the input
AnchorCost == UtilTokens(SubSeq(util.messages, 1, 2))

\* C24: for inputs of at least 2 messages, when the available budget is <= 0
\* or the estimated cost of the first two messages is >= the available
\* budget, splitForThreeTierMemory returns wasTruncated = true with an empty
\* firstPair, all input messages as droppedMessages and empty recentMessages.
C24_FallbackSignalShape ==
    SplitDone /\ Len(util.messages) >= 2 /\ (UtilBudget <= 0 \/ AnchorCost >= UtilBudget)
        => /\ util.split.wasTruncated = TRUE
           /\ util.split.firstPair = <<>>
           /\ util.split.droppedMessages = util.messages
           /\ util.split.recentMessages = <<>>

\* a positive budget that the first two messages use up exactly, with a third
\* message costing nothing: the whole input is signalled as dropped
C24_Witness ==
    /\ SplitDone
    /\ Len(util.messages) >= 3
    /\ UtilBudget > 0
    /\ AnchorCost = UtilBudget
    /\ UtilTokens(util.messages) = UtilBudget
    /\ util.split.droppedMessages = util.messages

(* ------------------ C25: fitting input, or an anchor ------------------ *)

\* the anchor pair can be honoured: two messages or more, a positive budget
\* and a first pair that costs less than it
AnchorHonoured == Len(util.messages) >= 2 /\ UtilBudget > 0 /\ AnchorCost < UtilBudget

\* C25: for inputs of at least 2 messages with available budget > 0 and
\* anchor-pair cost < available budget, splitForThreeTierMemory returns
\* wasTruncated = false exactly when the total estimated tokens of all
\* messages is <= the available budget; then firstPair and droppedMessages
\* are empty and recentMessages is the full input, otherwise the anchor is
\* the first two messages.
C25_FitsExactlyWhenNotTruncated ==
    SplitDone /\ AnchorHonoured
        => /\ util.split.wasTruncated = FALSE <=> UtilTokens(util.messages) <= UtilBudget
           /\ IF UtilTokens(util.messages) <= UtilBudget
              THEN /\ util.split.firstPair = <<>>
                   /\ util.split.droppedMessages = <<>>
                   /\ util.split.recentMessages = util.messages
              ELSE util.split.firstPair = SubSeq(util.messages, 1, 2)

\* at the boundary: an input of three messages or more that costs the budget
\* exactly, behind an anchor that costs less, is returned whole
C25_Witness ==
    /\ SplitDone /\ AnchorHonoured
    /\ Len(util.messages) >= 3
    /\ UtilTokens(util.messages) = UtilBudget
    /\ util.split.wasTruncated = FALSE
    /\ util.split.recentMessages = util.messages

(* ------------------------- C26: the recent tier ----------------------- *)

\* the split is truncated and keeps an anchor
TruncatedWithAnchor == SplitDone /\ util.split.wasTruncated /\ util.split.firstPair /= <<>>

\* what the budget leaves for the recent tier
RecentRemainder == UtilBudget - AnchorCost - util.config.maxSummaryBudgetTokens

\* the test's example: ten messages of 400 characters (100 tokens each) under
\* contextWindow 1000, maxOutputTokens 200 and a summary slot of 100 tokens
ExampleTenLong ==
    [k \in 1..10 |-> Message(RoleAt(k), StringContent(Chars(400, k)))]

ExampleThreeTierConfig ==
    [contextWindow |-> 1000, maxOutputTokens |-> 200, systemMessage |-> Undefined,
     newUserMessage |-> Undefined, charsPerToken |-> Undefined, safetyMargin |-> Undefined,
     maxSummaryBudgetTokens |-> 100]

ExampleTenSplit == splitForThreeTierMemory(ExampleTenLong, ExampleThreeTierConfig)

\* C26: in the truncated outcome with a non-empty anchor the recent tier is
\* the longest suffix of the messages after the anchor pair whose total
\* estimated tokens are <= available budget - anchor cost -
\* maxSummaryBudgetTokens, empty when that remainder is <= 0, and the dropped
\* tier is everything between index 2 and the start of the recent tier; ten
\* 100-token messages under a 600-token budget with a 100-token summary slot
\* give anchor = first 2, dropped = middle 5, recent = last 3.
C26_RecentTierLongestSuffix ==
    /\ TruncatedWithAnchor
        => LET n == Len(util.split.recentMessages)
               len == Len(util.messages)
           IN  /\ n <= len - 2
               /\ util.split.recentMessages = Suffix(util.messages, n)
               /\ util.split.droppedMessages = SubSeq(util.messages, 3, len - n)
               /\ IF RecentRemainder <= 0
                  THEN n = 0
                  ELSE /\ UtilTokens(util.split.recentMessages) <= RecentRemainder
                       /\ \A j \in 0..(len - 2) :
                            UtilTokens(Suffix(util.messages, j)) <= RecentRemainder => j <= n
    /\ ExampleTenSplit.wasTruncated
    /\ ExampleTenSplit.firstPair = SubSeq(ExampleTenLong, 1, 2)
    /\ ExampleTenSplit.droppedMessages = SubSeq(ExampleTenLong, 3, 7)
    /\ ExampleTenSplit.recentMessages = SubSeq(ExampleTenLong, 8, 10)

\* a summary slot of one token is reserved and the recent tier fills what is
\* left exactly, behind a dropped message
C26_Witness ==
    /\ TruncatedWithAnchor
    /\ util.config.maxSummaryBudgetTokens = 1
    /\ util.split.recentMessages /= <<>>
    /\ util.split.droppedMessages /= <<>>
    /\ UtilTokens(util.split.recentMessages) = RecentRemainder

(* ------------------ C27: nothing to keep, or no budget ---------------- *)

\* truncateToTokenBudget has been applied to the input
TruncateDone == util.op = "truncate"

\* C27: truncateToTokenBudget returns the empty sequence whenever the input
\* is empty or the available budget is <= 0, whatever the messages' sizes;
\* the call always ends with a sequence of input messages as its value,
\* never with an error.
C27_EmptyWithoutBudget ==
    TruncateDone
        => /\ Len(util.messages) = 0 \/ UtilBudget <= 0 => util.kept = <<>>
           /\ \E n \in 0..Len(util.messages) : util.kept = Suffix(util.messages, n)

\* a budget of exactly 0 and messages that cost nothing: still nothing is kept
C27_Witness ==
    /\ TruncateDone
    /\ Len(util.messages) >= 2
    /\ UtilTokens(util.messages) = 0
    /\ UtilBudget = 0
    /\ util.kept = <<>>

(* ---------------------- C29: processedThroughIndex -------------------- *)

\* C29: processedThroughIndex is the last index of the input, input length
\* - 1, in every outcome of splitForThreeTierMemory, truncated or not.
C29_ProcessedThroughLastIndex ==
    SplitDone => util.split.processedThroughIndex = Len(util.messages) - 1

\* C29, for what the code returns: processedThroughIndex is input length - 1
\* for every non-empty input in every outcome, and 0 for the empty input.
C29_ProcessedThroughLastIndexOrZero ==
    SplitDone
        => util.split.processedThroughIndex
             = IF Len(util.messages) = 0 THEN 0 ELSE Len(util.messages) - 1

\* the fallback signal for an input of three messages or more carries the
\* index of its last message
C29_Witness ==
    /\ SplitDone
    /\ Len(util.messages) >= 3
    /\ util.split.wasTruncated /\ util.split.firstPair = <<>>
    /\ util.split.processedThroughIndex = Len(util.messages) - 1

(* ----------------------- C30: the available budget -------------------- *)

\* the estimate of an optional text at the configured chars-per-token ratio
TextEstimate(text) ==
    IF IsDefined(text) THEN estimateStringTokens(text[1], util.config.charsPerToken) ELSE 0

\* contextWindow - maxOutputTokens - safetyMargin (200 when not given)
\* - estimate of the system message - estimate of the pending user message
ExpectedBudget ==
    util.config.contextWindow - util.config.maxOutputTokens
        - (IF IsDefined(util.config.safetyMargin) THEN util.config.safetyMargin[1] ELSE 200)
        - TextEstimate(util.config.systemMessage)
        - TextEstimate(util.config.newUserMessage)

\* C30: the available budget of truncateToTokenBudget and of
\* splitForThreeTierMemory is contextWindow - maxOutputTokens - safetyMargin
\* (200 when not given) - estimated tokens of the system message - estimated
\* tokens of the pending user message, each estimated at the configured
\* chars-per-token ratio, and may be negative: the value both functions
\* compute is that one, truncateToTokenBudget keeps nothing when it is <= 0
\* and otherwise the longest suffix that costs no more, and the split of two
\* messages or more is not truncated exactly when it is positive, above the
\* anchor cost and no less than the cost of the whole input.
C30_AvailableBudgetFormula ==
    /\ UtilBudget = ExpectedBudget
    /\ TruncateDone
        => IF ExpectedBudget <= 0
           THEN util.kept = <<>>
           ELSE /\ util.kept = Suffix(util.messages, Len(util.kept))
                /\ UtilTokens(util.kept) <= ExpectedBudget
                /\ \A j \in 0..Len(util.messages) :
                     UtilTokens(Suffix(util.messages, j)) <= ExpectedBudget
                         => j <= Len(util.kept)
    /\ SplitDone /\ Len(util.messages) >= 2
        => (util.split.wasTruncated = FALSE
              <=> /\ ExpectedBudget > 0
                  /\ AnchorCost < ExpectedBudget
                  /\ UtilTokens(util.messages) <= ExpectedBudget)

\* a ratio of 2 characters per token: the system message costs 2 tokens and
\* the pending message 3, so that 400 - 200 - 200 - 2 - 3 = -5 is the
\* budget, and truncateToTokenBudget keeps nothing
C30_Witness ==
    /\ TruncateDone
    /\ util.config.charsPerToken = Some(2)
    /\ util.config.contextWindow = 400
    /\ util.config.safetyMargin = Undefined
    /\ TextEstimate(util.config.systemMessage) = 2
    /\ TextEstimate(util.config.newUserMessage) = 3
    /\ ExpectedBudget = -5
    /\ Len(util.messages) >= 1
    /\ util.kept = <<>>

(* ----------------------- C28: the pending message --------------------- *)

\* the paths on which a summary message is part of the result
SummaryPaths == {"SUMMARY_SUCCESS", "SUMMARY_CACHED_HIT", "SUMMARY_STALE_FALLBACK"}

\* what a returned call's result holds ahead of the pending message: the
\* history, the sliding window, or the tiers with the summary message if any
BeforePending(p) ==
    IF ~calls[p].split.wasTruncated
    THEN AllHistory(p)
    ELSE IF calls[p].split.firstPair = <<>>
    THEN truncateToTokenBudget(AllHistory(p), CallConfig(p))
    ELSE calls[p].split.firstPair
         \o (IF calls[p].path \in SummaryPaths
             THEN <<SummaryMessage(ResolvedSummary(p))>>
             ELSE <<>>)
         \o calls[p].split.recentMessages

\* the newUserMessage the call was given, if any
GivenUserMessage(p) == calls[p].input[1].newUserMessage

\* C28: on every path of buildHistory, when a newUserMessage is provided the
\* returned sequence ends with exactly one appended message {role: user,
\* content: newUserMessage}, and when none is provided nothing is appended.
C28_PendingMessageAppended ==
    \A p \in Procs :
        Done(p)
            => calls[p].result
                 = BeforePending(p)
                   \o (IF IsDefined(GivenUserMessage(p))
                       THEN <<Message("user", StringContent(GivenUserMessage(p)[1]))>>
                       ELSE <<>>)

\* C28, for what the code returns: on every path of buildHistory, when a
\* non-empty newUserMessage is provided the returned sequence ends with
\* exactly one appended message {role: user, content: newUserMessage}, and
\* when none is provided, or the empty string, nothing is appended.
C28_NonEmptyPendingMessageAppended ==
    \A p \in Procs :
        Done(p)
            => calls[p].result
                 = BeforePending(p)
                   \o (IF IsDefined(GivenUserMessage(p)) /\ Len(GivenUserMessage(p)[1]) > 0
                       THEN <<Message("user", StringContent(GivenUserMessage(p)[1]))>>
                       ELSE <<>>)

\* a three-tier call that resolved a summary message returned with the
\* pending message as its last element, and nowhere else
C28_Witness ==
    \E p \in Procs :
        /\ Done(p) /\ calls[p].path \in SummaryPaths
        /\ IsDefined(GivenUserMessage(p)) /\ Len(GivenUserMessage(p)[1]) > 0
        /\ LET res == calls[p].result
               pending == Message("user", StringContent(GivenUserMessage(p)[1]))
           IN  /\ res[Len(res)] = pending
               /\ Cardinality({k \in 1..Len(res) : res[k] = pending}) = 1
               /\ Len(res) = Len(BeforePending(p)) + 1

(* ---------------- C31: the estimate of a message content -------------- *)

\* estimateContentTokens has been applied to the content
EstimateDone == util.op = "estimate"

\* the content whose tokens were estimated
EstimatedContent == util.messages[1].content

\* the ratio in effect: the argument, or 4 when it is left out
RatioInEffect ==
    IF IsDefined(util.config.charsPerToken) THEN util.config.charsPerToken[1] ELSE 4

\* the characters that count: the length of a plain text, or the summed
\* lengths of the texts of the text-typed parts
CountedChars ==
    IF EstimatedContent.kind = "string"
    THEN Len(EstimatedContent.text)
    ELSE SumSeq([k \in 1..Len(EstimatedContent.parts) |->
                   LET part == EstimatedContent.parts[k]
                   IN  IF part.type = "text" /\ part.text /= Undefined
                       THEN Len(part.text[1])
                       ELSE 0])

\* C31: estimateContentTokens returns a non-negative integer: ceil(length /
\* charsPerToken) for plain text, ceil(total length of the texts of the
\* text-typed parts / charsPerToken) for multi-part content, image parts
\* and text parts without text adding nothing; 0 for empty content and for
\* every charsPerToken <= 0.
C31_EstimateIsCeiling ==
    EstimateDone
        => /\ util.tokens \in Nat
           /\ IF RatioInEffect <= 0 \/ CountedChars = 0
              THEN util.tokens = 0
              ELSE /\ util.tokens * RatioInEffect >= CountedChars
                   /\ (util.tokens - 1) * RatioInEffect < CountedChars

\* a text part of 5 characters, a text part without text and an image at 3
\* characters per token: 2 tokens, rounded up from 5 / 3
C31_Witness ==
    /\ EstimateDone
    /\ EstimatedContent.kind = "parts"
    /\ \E k \in 1..Len(EstimatedContent.parts) : EstimatedContent.parts[k] = BareTextPart
    /\ \E k \in 1..Len(EstimatedContent.parts) : EstimatedContent.parts[k].type = "image_url"
    /\ CountedChars = 5
    /\ RatioInEffect = 3
    /\ util.tokens = 2

(* ------------------- C32: one path, calls in order -------------------- *)

\* the terminal states of the documented state machine
DocumentedPaths ==
    {"NO_TRUNCATION_NEEDED", "SLIDING_WINDOW_FALLBACK", "NO_CONTEXT", "SUMMARY_SKIPPED",
     "SUMMARY_CACHED_HIT", "SUMMARY_SUCCESS", "SUMMARY_STALE_FALLBACK", "SUMMARY_NONE"}

\* the collaborator calls a path is made of
CallsOnPath(p) ==
    <<Len(calls[p].getSummaryCalls), Len(calls[p].summarizeCalls), Len(calls[p].upsertCalls)>>

\* the path a call ended on fits the collaborator calls it made
PathFitsCalls(p) ==
    /\ calls[p].path \in {"NO_TRUNCATION_NEEDED", "SLIDING_WINDOW_FALLBACK", "NO_CONTEXT",
                          "SUMMARY_SKIPPED"} => CallsOnPath(p) = <<0, 0, 0>>
    /\ calls[p].path = "SUMMARY_CACHED_HIT" => CallsOnPath(p) = <<1, 0, 0>>
    /\ calls[p].path = "SUMMARY_SUCCESS" => CallsOnPath(p) = <<1, 1, 1>>
    /\ calls[p].path \in {"SUMMARY_STALE_FALLBACK", "SUMMARY_NONE"}
          => CallsOnPath(p) \in {<<1, 0, 0>>, <<1, 1, 0>>}

\* the collaborator calls of a call in any of its states: at most one of
\* each, summarize after getSummary has returned, upsertSummary with the
\* non-empty text summarize returned, made as the call ends
CallsInOrder(p) ==
    /\ calls[p].pc \in {"idle", "getSummary", "summarize", "done"}
    /\ Len(calls[p].getSummaryCalls) <= 1
    /\ Len(calls[p].summarizeCalls) <= 1
    /\ Len(calls[p].upsertCalls) <= 1
    /\ calls[p].pc = "getSummary" => CallsOnPath(p) = <<1, 0, 0>>
    /\ calls[p].pc = "summarize" => CallsOnPath(p) = <<1, 1, 0>>
    /\ calls[p].summarizeCalls /= <<>> => calls[p].getSummaryCalls /= <<>>
    /\ calls[p].upsertCalls /= <<>>
          => /\ calls[p].summarizeCalls /= <<>>
             /\ calls[p].pc = "done"
             /\ calls[p].upsertCalls[1].summary /= <<>>
    /\ calls[p].pc = "done" <=> calls[p].path /= ""

\* a step of a call moves it forward: from the start to getSummary or to the
\* end, from getSummary to summarize or to the end, from summarize to the
\* end, and from the end back to idle when the caller has taken the result
MovesForward(p) ==
    calls'[p] /= calls[p]
        => \/ calls[p].pc = "idle" /\ calls'[p].pc \in {"getSummary", "done"}
           \/ calls[p].pc = "getSummary" /\ calls'[p].pc \in {"summarize", "done"}
           \/ calls[p].pc = "summarize" /\ calls'[p].pc = "done"
           \/ calls[p].pc = "done" /\ calls'[p] = IdleCall

\* C32: each buildHistory call follows exactly one path of the documented
\* state machine and ends in DONE, issuing at most one getSummary, one
\* summarize and one upsertSummary, in that order: summarize only after
\* getSummary has returned, upsertSummary only after summarize has returned
\* a non-empty text.
C32_OneDocumentedPath ==
    /\ [](\A p \in Procs :
            /\ CallsInOrder(p)
            /\ Done(p) => calls[p].path \in DocumentedPaths /\ PathFitsCalls(p))
    /\ [][\A p \in Procs : MovesForward(p)]_vars

\* C32, for what the code does: as above, where a call also ends in DONE,
\* without a summary message, when getSummary, summarize or upsertSummary
\* throws or rejects, a path the state machine does not list.
C32_OnePathOrFailureExit ==
    /\ [](\A p \in Procs :
            /\ CallsInOrder(p)
            /\ Done(p)
                 => /\ calls[p].path \in DocumentedPaths \cup {"SUMMARY_ERROR"}
                    /\ PathFitsCalls(p)
                    /\ calls[p].path = "SUMMARY_ERROR"
                         => /\ CallsOnPath(p) \in {<<1, 0, 0>>, <<1, 1, 0>>, <<1, 1, 1>>}
                            /\ calls[p].result = TiersWithoutSummary(p))
    /\ [][\A p \in Procs : MovesForward(p)]_vars

\* a call went the whole way: it loaded a record, had the newly dropped
\* messages summarized and issued its one write as it ended
C32_Witness ==
    \E p \in Procs :
        /\ Done(p)
        /\ calls[p].path = "SUMMARY_SUCCESS"
        /\ CallsOnPath(p) = <<1, 1, 1>>
        /\ IsDefined(calls[p].existing)
        /\ calls[p].upsertCalls[1].summary /= <<>>

(* ----------------------- C33: every call returns ---------------------- *)

\* caller p's call awaits getSummary or summarize
Awaiting(p) == calls[p].pc \in {"getSummary", "summarize"}

\* C33: every buildHistory call returns in the end, provided each awaited
\* getSummary and summarize call resolves or rejects in the end; a failed
\* collaborator call is not made again within the call (an awaiting call
\* never steps back, and makes each call at most once), and a call is done
\* whether or not its write has settled.
C33_EveryCallReturns ==
    /\ Awaiting(Caller) ~> Done(Caller)
    /\ [](Len(calls[Caller].getSummaryCalls) <= 1 /\ Len(calls[Caller].summarizeCalls) <= 1)
    /\ [][/\ (calls[Caller].pc = "getSummary"
                => calls'[Caller].pc \in {"getSummary", "summarize", "done"})
           /\ (calls[Caller].pc = "summarize" => calls'[Caller].pc \in {"summarize", "done"})
           /\ (calls'[Caller].path = "SUMMARY_ERROR" => calls'[Caller].pc = "done")]_vars

\* a call has returned while the write it issued is still pending
C33_Witness ==
    /\ Done(Caller)
    /\ calls[Caller].upsertCalls /= <<>>
    /\ calls[Caller].upsertCalls[1] \in writes

(* ---------------------- C34: the load of the record fails ------------- *)

\* caller p's call ended because getSummary threw or rejected
LoadFailed(p) == Done(p) /\ CollaboratorFailed(p) /\ calls[p].summarizeCalls = <<>>

\* C34: if storage.getSummary throws or rejects, the summarizer is not
\* called, nothing is persisted, and buildHistory returns anchor + recent +
\* pending with no summary message.
C34_LoadFailureSkipsSummary ==
    /\ [](\A p \in Procs :
            LoadFailed(p)
                => /\ calls[p].upsertCalls = <<>>
                   /\ calls[p].result = TiersWithoutSummary(p))
    /\ [][\A p \in Procs :
            GetSummaryRejects(p)
                => /\ LoadFailed(p)'
                   /\ calls'[p].getSummaryCalls = calls[p].getSummaryCalls
                   /\ store' = store
                   /\ writes' = writes]_vars

\* the record of the call's key is stored but could not be loaded: the call
\* returned its tiers and the pending message without a summary
C34_Witness ==
    \E p \in Procs :
        /\ LoadFailed(p)
        /\ IsDefined(StoredRecord(calls[p].context))
        /\ calls[p].split.droppedMessages /= <<>>
        /\ PendingMessage(p) /= <<>>
        /\ calls[p].result = TiersWithoutSummary(p)

(* ----------------------- C35: coverage consistency -------------------- *)

\* the characters that mark a message: those of its text or image url
IsMessageMark(ch) == ch \in 1..MaxHistory

\* the message marks a text holds, in order
MessageMarks(text) == SelectSeq(text, IsMessageMark)

\* the marks of the conversation's messages at 0-based indices 2 .. m, each
\* message rendered once, in order
MarksThrough(m) == MessageMarks(MessagesText(SubSeq(history, 3, m + 1)))

\* a record's summary is derived from exactly the messages its marker names
CoversExactly(record) ==
    /\ record.summarizedThroughIndex >= 2
    /\ record.summarizedThroughIndex <= Len(history) - 1
    /\ MessageMarks(record.summary) = MarksThrough(record.summarizedThroughIndex)

\* C35: for an append-only history, no purge, records written only by
\* buildHistory and a summarizer that folds exactly the messages it is given
\* into the summary it is given, every record stored with marker m holds a
\* summary derived from exactly the history messages at indices 2 .. m, each
\* folded in once, under any budgets and any interleaving of concurrent
\* calls; the same holds of every write still pending.
C35_CoverageConsistency ==
    /\ \A k \in StoreKeys : IsDefined(store[k]) => CoversExactly(store[k][1])
    /\ \A data \in writes : CoversExactly(RecordOf(data)[1])

\* a record covering two dropped messages is stored that a call built on
\* top of a loaded record covering one
C35_Witness ==
    \E p \in Procs :
        /\ IsDefined(calls[p].existing)
        /\ calls[p].existing[1].summarizedThroughIndex = 2
        /\ calls[p].upsertCalls /= <<>>
        /\ store[calls[p].context[1]] = RecordOf(calls[p].upsertCalls[1])
        /\ store[calls[p].context[1]][1].summarizedThroughIndex = 3
        /\ Len(calls[p].newly) = 1


(* ------------------ the split of a history and of its prefixes --------- *)

\* the three-tier split of the first n messages under the same configuration
PrefixSplit(n) == splitForThreeTierMemory(SubSeq(util.messages, 1, n), util.config)

IsPrefix(s, t) == Len(s) <= Len(t) /\ SubSeq(t, 1, Len(s)) = s

HonouredAnchor(split) == split.wasTruncated /\ split.firstPair /= <<>>

\* C36: under one budget configuration, when the split of a history and the
\* split of a prefix of it are both truncated with a non-empty anchor, the
\* dropped tier of the prefix is a prefix of the dropped tier of the history:
\* the recent tier never starts earlier after appends.
C36_DroppedTierPrefixStable ==
    TruncatedWithAnchor =>
        \A n \in 0..Len(util.messages) :
            HonouredAnchor(PrefixSplit(n)) =>
                /\ IsPrefix(PrefixSplit(n).droppedMessages, util.split.droppedMessages)
                /\ RecentStartIndex(SubSeq(util.messages, 1, n), PrefixSplit(n).recentMessages)
                   <= RecentStartIndex(util.messages, util.split.recentMessages)

\* a shorter history already drops a message and the appended one is dropped too
C36_Witness ==
    /\ TruncatedWithAnchor
    /\ \E n \in 0..(Len(util.messages) - 1) :
           /\ HonouredAnchor(PrefixSplit(n))
           /\ Len(PrefixSplit(n).droppedMessages) >= 1
           /\ Len(util.split.droppedMessages) > Len(PrefixSplit(n).droppedMessages)


(* ---------------------- the empty dropped tier ------------------------- *)

\* buildSummaryMessage is entered on the three-tier path
SummaryResolutionEntered(p) ==
    /\ calls[p].pc /= "idle"
    /\ HonouredAnchor(calls[p].split)
    /\ HasContext(calls[p].context)

\* the droppedMessages.length === 0 return of buildSummaryMessage is taken
EmptyDroppedSkip(p) ==
    /\ SummaryResolutionEntered(p)
    /\ Len(calls[p].split.droppedMessages) = 0

\* C37 as stated: a truncated split with an anchor under a summary slot >= 0
\* has a non-empty dropped tier, and no buildHistory call takes the
\* empty-dropped-tier return of summary resolution.
C37_EmptyDroppedSkipNeverTaken ==
    \A p \in Procs :
        /\ (/\ calls[p].pc /= "idle"
            /\ HonouredAnchor(calls[p].split)
            /\ mgr.maxSummaryBudgetTokens >= 0) => Len(calls[p].split.droppedMessages) >= 1
        /\ ~EmptyDroppedSkip(p)

\* C37, amended: a truncated split with an anchor under a summary slot >= 0
\* has a non-empty dropped tier, and a buildHistory call of a manager whose
\* summary slot is >= 0 never takes the empty-dropped-tier return.
C37_EmptyDroppedSkipNeedsNegativeSlot ==
    \A p \in Procs :
        (calls[p].pc /= "idle" /\ mgr.maxSummaryBudgetTokens >= 0) =>
            /\ HonouredAnchor(calls[p].split) => Len(calls[p].split.droppedMessages) >= 1
            /\ ~EmptyDroppedSkip(p)

\* a slot of 0: one message is dropped, the rest after the anchor is kept, and
\* summary resolution goes on to the store
C37_Witness ==
    \E p \in Procs :
        /\ mgr.maxSummaryBudgetTokens = 0
        /\ SummaryResolutionEntered(p)
        /\ Len(calls[p].split.droppedMessages) = 1
        /\ Len(calls[p].split.recentMessages) >= 1
        /\ calls[p].getSummaryCalls /= <<>>


(* --------------------------- purge is final ---------------------------- *)

\* the last deleteSummaries call has resolved after reaching the storage
PurgeResolved == purge.outcome = "resolved" /\ purge.deleteCalls /= <<>>

\* C38: once deleteSummaries has resolved and no buildHistory call is started
\* afterwards, the store holds no record of the purged entity, also when a
\* call for that entity was in flight at the time of the purge.
C38_PurgeIsFinal ==
    PurgeResolved =>
        \A k \in KeysOfEntity(purge) : ~IsDefined(store[k])


(* ------------------------- what gets persisted ------------------------- *)

\* a record to persist names at least one summarized message and has a text
Persistable(data) == data.summarizedThroughIndex >= 2 /\ Len(data.summary) > 0

\* caller p's call as it would return on an empty string from the engine
OnEmptySummary(p) == AfterSummarize(calls[p], Some(<<>>))

\* C39: every record buildHistory persists has a marker >= 2 and a non-empty
\* text; an empty string from the summarizer is treated like null: nothing is
\* written and the call falls back to the loaded summary, or to none.
C39_NothingEmptyPersisted ==
    /\ \A data \in writes : Persistable(data)
    /\ \A k \in StoreKeys : IsDefined(store[k]) => Persistable(store[k][1])
    /\ \A p \in Procs :
          /\ \A i \in 1..Len(calls[p].upsertCalls) : Persistable(calls[p].upsertCalls[i])
          /\ calls[p].pc = "summarize" =>
                /\ OnEmptySummary(p) = AfterSummarize(calls[p], Undefined)
                /\ OnEmptySummary(p).pc = "done"
                /\ OnEmptySummary(p).upsertCalls = <<>>
                /\ OnEmptySummary(p).result =
                      TiersWithSummary(p, IF IsDefined(calls[p].existing)
                                          THEN Some(calls[p].existing[1].summary)
                                          ELSE Undefined)

\* a record with marker 2 is stored while another call, which loaded it, is
\* waiting for the engine
C39_Witness ==
    \E p \in Procs, k \in StoreKeys :
        /\ IsDefined(store[k])
        /\ store[k][1].summarizedThroughIndex = 2
        /\ calls[p].pc = "summarize"
        /\ IsDefined(calls[p].existing)

====
